---- MODULE Spec2Model ----
(***************************************************************************)
(* Ralph loop engine: RalphTask / RalphIteration (ralph/models.py),        *)
(* CompletionDetector (ralph/completion.py), RalphLoopAgent and            *)
(* RalphTaskRunner (ralph/loop_agent.py), RalphToolkit path confinement    *)
(* (ralph/tools.py).                                                       *)
(*                                                                         *)
(* Granularity: one action per stretch of code between two suspension      *)
(* points (await) of the asyncio event loop; API calls made by clients     *)
(* (submit, cancel, status, wait) interleave between those stretches.      *)
(* Texts are sequences of tokens; "t in text" is token membership.         *)
(* Confidence values are in hundredths (1.0 = 100).                        *)
(***************************************************************************)
EXTENDS Integers, Sequences, FiniteSets, TLC

(* ------------------------------ bounds -------------------------------- *)
NumTasks == 2
MaxConcurrent == 1
MaxIterations == 2
MaxPathLen == 2
MaxResponseLen == 2
MaxCommandLen == 2
MaxChangeCalls == 2
MaxContentLen == 3
MaxTextLen == 2
MaxEdits == 2
LoopMaxIterations == 6
NumQueueTasks == 3

\* the task ids there are, and those the runner is given in Spec
Tasks == 1..NumQueueTasks

SpecTasks == 1..NumTasks

(* --------------------------- small helpers ---------------------------- *)
None == "None"

Min(a, b) == IF a < b THEN a ELSE b

Contains(text, tok) == \E i \in 1..Len(text) : text[i] = tok

Last(s) == s[Len(s)]

(* ------------------------- models.py: enums --------------------------- *)
TerminalStatuses == {"completed", "failed", "timeout", "cancelled"}

IsTerminal(status) == status \in TerminalStatuses

(* ------------------------- texts and inputs --------------------------- *)
DefaultPromise == "<promise>COMPLETE</promise>"

CustomPromise == "SHIP IT"

\* str.lower(), for the tokens that have upper-case letters
Lower(tok) ==
  CASE tok = "<promise>COMPLETE</promise>" -> "<promise>complete</promise>"
    [] tok = "<PROMISE>complete</PROMISE>" -> "<promise>complete</promise>"
    [] tok = "SHIP IT" -> "ship it"
    [] tok = "TASK_COMPLETE" -> "task_complete"
    [] tok = "Task Complete" -> "task complete"
    [] tok = "LOOP COMPLETE" -> "loop complete"
    [] tok = "DONE_COMPLETE" -> "done_complete"
    [] tok = "[COMPLETE]" -> "[complete]"
    [] tok = "[DONE]" -> "[done]"
    [] tok = "Done." -> "done."
    [] OTHER -> tok

\* CompletionDetector.completion_patterns, in order: the texts each regular
\* expression matches, in lower case (the search ignores case)
CompletionPatterns ==
  << {"<promise>complete</promise>"},
     {"taskcomplete", "task_complete", "task complete"},
     {"loopcomplete", "loop_complete", "loop complete"},
     {"donecomplete", "done_complete", "done complete"},
     {"[complete]"},
     {"[done]"} >>

CompletionPhrases == {"task is complete", "completed successfully", "all done",
                      "finished implementing", "implementation complete",
                      "changes have been made", "everything is working", "tests pass",
                      "all tests pass"}
VerificationPhrases == {"please review", "ready for review", "let me know if",
                        "should i", "would you like"}
NoChangePhrases == {"no changes needed", "no further changes", "nothing left to do",
                    "all requirements met"}

\* pieces of response text in which an error pattern of _check_for_errors
\* matches, and the text its group captures
ErrorText == "error: could not compile the module"
HandledErrorText == "failed: error handling is not covered"

ErrorPatternMatch(tok) ==
  CASE tok = ErrorText -> <<"could not compile the module">>
    [] tok = HandledErrorText -> <<"error handling is not covered">>
    [] OTHER -> <<>>

\* any(skip in match for skip in ["no error", "without error", "error handling"])
IsSkippedMatch(match) == match = "error handling is not covered"

\* what the LLM may answer in one iteration
WorkingResponse == <<"working on it">>
PromiseResponse == <<"Done.", DefaultPromise>>
AllDoneResponse == <<"all done", "no changes needed", "all requirements met">>

\* two long answers that differ only after their first 500 characters
Filler500 == "a text of 500 characters"
LongResponseA == <<Filler500, "tail a">>
LongResponseB == <<Filler500, "tail b">>

\* what the backpressure checks of one iteration may produce
BpNone == <<>>
BpPass == <<[check_type |-> "test", passed |-> TRUE, errors |-> 0]>>
BpFail == <<[check_type |-> "test", passed |-> FALSE, errors |-> 1]>>

\* the tool calls made during one LLM turn and the file changes they left
\* in the toolkit
NoToolCalls == <<>>
ReadCall == <<[tool_name |-> "read_file", error |-> None]>>
FailedCall == <<[tool_name |-> "read_file", error |-> "Path is outside working directory"]>>
EditCalls == <<[tool_name |-> "read_file", error |-> None],
               [tool_name |-> "edit_file", error |-> None]>>
CompleteCall == <<[tool_name |-> "complete_task", error |-> None]>>

NoFileChanges == <<>>
OneFileChange == <<[path |-> "f", change_type |-> "modified"]>>

\* the outcome of the awaited part of one iteration (_run_iteration):
\*   llm_raises : build_context or _call_claude raised
\*   tool_calls, file_changes : what _call_claude and the toolkit returned
\*   bp_raises  : _run_backpressure raised (after the promise check)
Input(llm_raises, response, tool_calls, file_changes, bp, bp_raises) ==
  [llm_raises |-> llm_raises, response |-> response, tool_calls |-> tool_calls,
   file_changes |-> file_changes, bp |-> bp, bp_raises |-> bp_raises]

IterationInputs ==
  { Input(TRUE, <<>>, NoToolCalls, NoFileChanges, BpNone, FALSE),
    Input(FALSE, WorkingResponse, EditCalls, OneFileChange, BpPass, FALSE),
    Input(FALSE, WorkingResponse, ReadCall, NoFileChanges, BpFail, FALSE),
    Input(FALSE, PromiseResponse, CompleteCall, NoFileChanges, BpNone, FALSE),
    Input(FALSE, PromiseResponse, EditCalls, OneFileChange, BpFail, FALSE),
    Input(FALSE, PromiseResponse, CompleteCall, NoFileChanges, BpNone, TRUE),
    Input(FALSE, AllDoneResponse, NoToolCalls, NoFileChanges, BpNone, FALSE),
    Input(FALSE, AllDoneResponse, ReadCall, OneFileChange, BpFail, FALSE) }

\* the outcomes of an iteration in the runs of one task through a long loop
LoopInputs ==
  { Input(TRUE, <<>>, NoToolCalls, NoFileChanges, BpNone, FALSE),
    Input(FALSE, WorkingResponse, ReadCall, NoFileChanges, BpPass, FALSE),
    Input(FALSE, WorkingResponse, ReadCall, NoFileChanges, BpNone, TRUE),
    Input(FALSE, LongResponseA, EditCalls, OneFileChange, BpNone, FALSE),
    Input(FALSE, LongResponseB, EditCalls, OneFileChange, BpNone, FALSE),
    Input(FALSE, PromiseResponse, CompleteCall, NoFileChanges, BpNone, FALSE) }

LoopConfigs ==
  { [max_iterations |-> n, completion_promise |-> DefaultPromise] : n \in 1..LoopMaxIterations }

\* the pieces of text a response given to the completion detector is made of
DetectTokens ==
  { DefaultPromise, "<PROMISE>complete</PROMISE>", CustomPromise, "ship it",
    "TASK_COMPLETE", "Task Complete", "[DONE]", "[done]",
    "working on it", "all done", "complete" }

DetectConfigs ==
  { [max_iterations |-> LoopMaxIterations, completion_promise |-> p] :
      p \in {DefaultPromise, CustomPromise} }

\* the task configurations submitted
Configs ==
  { [max_iterations |-> n, completion_promise |-> DefaultPromise] : n \in 0..MaxIterations }

(* ----------------------- models.py: RalphIteration -------------------- *)
NewIteration(n) ==
  [ iteration_number         |-> n,
    status                   |-> "running",
    agent_response           |-> <<>>,
    tool_calls               |-> <<>>,
    file_changes             |-> <<>>,
    backpressure_results     |-> <<>>,
    completion_promise_found |-> FALSE,
    completion_message       |-> None,
    error                    |-> None,
    completed_at             |-> 0 ]

\* complete() that sets the status only
IterationComplete_NoTimestamp(it, status) ==
  [it EXCEPT !.status = status]

\* RalphIteration.complete(status)
IterationComplete(it, status) ==
  [it EXCEPT !.status = status, !.completed_at = 1]

(* ------------------------- models.py: RalphTask ----------------------- *)
\* completed_at: 0 for None, otherwise the number of assignments made to it.
\* completion_result, final_output, error: <<>> for None, otherwise <<value>>
\* (error: the message as a tuple of its parts).
\* hist: the statuses assigned to the task so far, in order.
NewTask(config) ==
  [ status            |-> "pending",
    current_iteration |-> 0,
    iterations        |-> <<>>,
    total_tool_calls  |-> 0,
    total_file_changes |-> 0,
    completed_at      |-> 0,
    completion_result |-> <<>>,
    final_output      |-> <<>>,
    error             |-> <<>>,
    config            |-> config,
    hist              |-> <<>> ]

start(task) ==
  [task EXCEPT !.status = "running", !.hist = Append(@, "running")]

complete(task, result, final_output) ==
  [task EXCEPT !.status = "completed",
               !.completed_at = @ + 1,
               !.completion_result = <<result>>,
               !.final_output = <<final_output>>,
               !.hist = Append(@, "completed")]

fail(task, error) ==
  [task EXCEPT !.status = "failed",
               !.completed_at = @ + 1,
               !.error = error,
               !.hist = Append(@, "failed")]

timeout(task) ==
  [task EXCEPT !.status = "timeout",
               !.completed_at = @ + 1,
               !.error = <<"Task timed out after", ToString(task.current_iteration), "iterations">>,
               !.hist = Append(@, "timeout")]

cancel_NoCompletedAt(task) ==
  [task EXCEPT !.status = "cancelled", !.hist = Append(@, "cancelled")]


cancel(task) ==
  [task EXCEPT !.status = "cancelled",
               !.completed_at = @ + 1,
               !.hist = Append(@, "cancelled")]

add_iteration_NoFileChanges(task, it) ==
  [task EXCEPT !.iterations = Append(@, it),
               !.current_iteration = Len(task.iterations) + 1,
               !.total_tool_calls = @ + Len(it.tool_calls)]

add_iteration_NoCount(task, it) ==
  [task EXCEPT !.iterations = Append(@, it),
               !.total_tool_calls = @ + Len(it.tool_calls),
               !.total_file_changes = @ + Len(it.file_changes)]

add_iteration(task, it) ==
  [task EXCEPT !.iterations = Append(@, it),
               !.current_iteration = Len(task.iterations) + 1,
               !.total_tool_calls = @ + Len(it.tool_calls),
               !.total_file_changes = @ + Len(it.file_changes)]

get_summary(task) ==
  [ status               |-> task.status,
    iterations_completed |-> task.current_iteration,
    max_iterations       |-> task.config.max_iterations,
    total_tool_calls     |-> task.total_tool_calls,
    total_file_changes   |-> task.total_file_changes,
    is_complete          |-> IF task.completion_result = <<>> THEN FALSE
                             ELSE task.completion_result[1].is_complete,
    error                |-> task.error ]

(* -------------------- completion.py: CompletionDetector --------------- *)
\* the number of characters of a token of text (OTHER: tokens that no
\* response of the loop contains)
TokenChars(tok) ==
  CASE tok = Filler500 -> 500
    [] tok = "working on it" -> 13
    [] tok = "Done." -> 5
    [] tok = DefaultPromise -> 27
    [] tok = "all done" -> 8
    [] tok = "no changes needed" -> 17
    [] tok = "all requirements met" -> 20
    [] tok = "tail a" -> 6
    [] tok = "tail b" -> 6
    [] OTHER -> 1

ResponsePrefixLen == 500

\* text[:n], for a text cut between two tokens: the tokens that start
\* before character n
RECURSIVE TextPrefix(_, _)
TextPrefix(text, n) ==
  IF text = <<>> \/ n <= 0 THEN <<>>
  ELSE <<Head(text)>> \o TextPrefix(Tail(text), n - TokenChars(Head(text)))

\* detector = CompletionDetector(task.config.completion_promise), so
\* self.completion_promise is the task's configured promise.
\* re.search(pattern, response, re.IGNORECASE): where pattern k matches
PatternHits(response, k) ==
  {i \in 1..Len(response) : Lower(response[i]) \in CompletionPatterns[k]}

SetMin(S) == CHOOSE x \in S : \A y \in S : x <= y

check_completion_promise_CaseSensitive(response, custom_promise, self_promise) ==
  LET hits(k) == {i \in 1..Len(response) : response[i] \in CompletionPatterns[k]}
      matching == {k \in 1..Len(CompletionPatterns) : hits(k) # {}}
  IN IF custom_promise # None /\ Contains(response, custom_promise)
       THEN [found |-> TRUE, match |-> custom_promise]
     ELSE IF Contains(response, self_promise)
       THEN [found |-> TRUE, match |-> self_promise]
     ELSE IF matching # {}
       THEN [found |-> TRUE, match |-> response[SetMin(hits(SetMin(matching)))]]
     ELSE [found |-> FALSE, match |-> None]

\* the custom promise, then the detector's own promise, then the first
\* pattern that matches (match.group() is the text as it stands in the response)
check_completion_promise(response, custom_promise, self_promise) ==
  LET matching == {k \in 1..Len(CompletionPatterns) : PatternHits(response, k) # {}}
  IN IF custom_promise # None /\ Contains(response, custom_promise)
       THEN [found |-> TRUE, match |-> custom_promise]
     ELSE IF Contains(response, self_promise)
       THEN [found |-> TRUE, match |-> self_promise]
     ELSE IF matching # {}
       THEN [found |-> TRUE,
             match |-> response[SetMin(PatternHits(response, SetMin(matching)))]]
     ELSE [found |-> FALSE, match |-> None]

check_backpressure(results) ==
  IF results = <<>>
    THEN [all_passed |-> TRUE, no_errors |-> TRUE]
    ELSE [all_passed |-> \A i \in 1..Len(results) : results[i].passed,
          no_errors  |-> \A i \in 1..Len(results) : results[i].errors = 0]

\* the matches of the error patterns in the response that are not skipped
RECURSIVE ResponseErrors(_)
ResponseErrors(response) ==
  IF response = <<>> THEN <<>>
  ELSE SelectSeq(ErrorPatternMatch(Head(response)), LAMBDA m : ~IsSkippedMatch(m))
         \o ResponseErrors(Tail(response))

\* critical: the iteration's error or a tool call's error (error patterns
\* found in the response are only listed, they are not critical)
check_for_errors(it) ==
  [has_critical_error |->
     \/ it.error # None
     \/ \E i \in 1..Len(it.tool_calls) : it.tool_calls[i].error # None,
   errors_found |->
     (IF it.error # None THEN <<it.error>> ELSE <<>>)
       \o SelectSeq([i \in 1..Len(it.tool_calls) |-> it.tool_calls[i].error],
                    LAMBDA e : e # None)
       \o ResponseErrors(it.agent_response)]

\* "read" in tc.tool_name.lower() or "get" in tc.tool_name.lower()
ReadOnlyToolNames == {"read_file", "get_file_info", "get_task_info"}

\* "phrase in response": "tests pass" is also found in "all tests pass"
HasPhrase(response, p) ==
  \/ Contains(response, p)
  \/ p = "tests pass" /\ Contains(response, "all tests pass")

PhraseHits(response, phrases) ==
  Cardinality({p \in phrases : HasPhrase(response, p)})

analyze_progress(task, it) ==
  LET read_only == /\ it.tool_calls # <<>>
                   /\ \A i \in 1..Len(it.tool_calls) :
                         it.tool_calls[i].tool_name \in ReadOnlyToolNames
      n == Len(task.iterations)
      decreasing == /\ n >= 2
                    /\ Len(it.file_changes) < Len(task.iterations[n - 1].file_changes)
      raw == 15 * PhraseHits(it.agent_response, CompletionPhrases)
           + 10 * PhraseHits(it.agent_response, VerificationPhrases)
           + 20 * PhraseHits(it.agent_response, NoChangePhrases)
           + (IF read_only THEN 10 ELSE 0)
           + (IF decreasing THEN 5 ELSE 0)
      confidence == Min(raw, 70)
  IN [ appears_complete |->
         /\ confidence >= 50
         /\ it.error = None
         /\ \A i \in 1..Len(it.backpressure_results) : it.backpressure_results[i].passed,
       confidence |-> confidence ]

check_completion_ErrorFirst(task, it) ==
  LET promise_check == check_completion_promise(it.agent_response,
                          task.config.completion_promise, task.config.completion_promise)
  IN IF promise_check.found /\ it.error = None
       THEN [ is_complete |-> TRUE, reason |-> <<"Completion promise detected:", promise_check.match>>,
              confidence |-> 100, promise_detected |-> TRUE,
              all_tests_passed |-> FALSE, no_errors |-> TRUE ]
       ELSE [ is_complete |-> FALSE, reason |-> <<"Errors detected in iteration">>,
              confidence |-> 0, promise_detected |-> promise_check.found,
              all_tests_passed |-> FALSE, no_errors |-> FALSE ]


check_completion_IgnoreBackpressure(task, it) ==
  LET promise_check == check_completion_promise(it.agent_response,
                          task.config.completion_promise, task.config.completion_promise)
      error_check == check_for_errors(it)
      no_errors == ~error_check.has_critical_error
      progress_check == analyze_progress(task, it)
  IN IF promise_check.found
       THEN [ is_complete |-> TRUE, reason |-> <<"Completion promise detected:", promise_check.match>>,
              confidence |-> 100, promise_detected |-> TRUE,
              all_tests_passed |-> FALSE, no_errors |-> TRUE ]
     ELSE IF no_errors /\ progress_check.confidence >= 50
       THEN [ is_complete |-> TRUE,
              reason |-> <<"All tests passed, no errors, task appears complete">>,
              confidence |-> progress_check.confidence, promise_detected |-> FALSE,
              all_tests_passed |-> TRUE, no_errors |-> no_errors ]
     ELSE [ is_complete |-> FALSE, reason |-> <<"Task still in progress">>,
            confidence |-> progress_check.confidence, promise_detected |-> FALSE,
            all_tests_passed |-> TRUE, no_errors |-> no_errors ]

check_completion(task, it) ==
  LET promise_check == check_completion_promise(it.agent_response,
                          task.config.completion_promise, task.config.completion_promise)
      bp_check == check_backpressure(it.backpressure_results)
      error_check == check_for_errors(it)
      no_errors == bp_check.no_errors /\ ~error_check.has_critical_error
      progress_check == analyze_progress(task, it)
  IN IF promise_check.found
       THEN [ is_complete |-> TRUE, reason |-> <<"Completion promise detected:", promise_check.match>>,
              confidence |-> 100, promise_detected |-> TRUE,
              all_tests_passed |-> FALSE, no_errors |-> TRUE ]
     ELSE IF bp_check.all_passed /\ no_errors /\ progress_check.appears_complete
       THEN [ is_complete |-> TRUE,
              reason |-> <<"All tests passed, no errors, task appears complete">>,
              confidence |-> progress_check.confidence, promise_detected |-> FALSE,
              all_tests_passed |-> bp_check.all_passed, no_errors |-> no_errors ]
     ELSE IF ~no_errors
       THEN [ is_complete |-> FALSE, reason |-> <<"Errors detected in iteration">>,
              confidence |-> 0, promise_detected |-> FALSE,
              all_tests_passed |-> bp_check.all_passed, no_errors |-> no_errors ]
     ELSE [ is_complete |-> FALSE, reason |-> <<"Task still in progress">>,
            confidence |-> progress_check.confidence, promise_detected |-> FALSE,
            all_tests_passed |-> bp_check.all_passed, no_errors |-> no_errors ]

\* the positions of iterations[-n:]
LastPositions(its, n) == {i \in 1..Len(its) : i > Len(its) - n}

RecentErrors(its) == Cardinality({i \in LastPositions(its, 5) : its[i].error # None})

RecentResponses(its) ==
  {TextPrefix(its[i].agent_response, ResponsePrefixLen) : i \in LastPositions(its, 3)}

should_stop_NoStuckCheck(task, completion_result) ==
  LET its == task.iterations
  IN IF completion_result.is_complete
       THEN [stop |-> TRUE, reason |-> completion_result.reason]
     ELSE IF task.current_iteration >= task.config.max_iterations
       THEN [stop |-> TRUE, reason |-> <<"Max iterations (", ToString(task.config.max_iterations), ") reached">>]
     ELSE IF Len(its) >= 5 /\ RecentErrors(its) >= 4
       THEN [stop |-> TRUE, reason |-> <<"Too many consecutive errors">>]
     ELSE [stop |-> FALSE, reason |-> <<>>]

should_stop_StuckFirst(task, completion_result) ==
  LET its == task.iterations
  IN IF completion_result.is_complete
       THEN [stop |-> TRUE, reason |-> completion_result.reason]
     ELSE IF task.current_iteration >= task.config.max_iterations
       THEN [stop |-> TRUE, reason |-> <<"Max iterations (", ToString(task.config.max_iterations), ") reached">>]
     ELSE IF Len(its) >= 3 /\ Cardinality(RecentResponses(its)) = 1
       THEN [stop |-> TRUE, reason |-> <<"Agent appears stuck (identical responses)">>]
     ELSE IF Len(its) >= 5 /\ RecentErrors(its) >= 4
       THEN [stop |-> TRUE, reason |-> <<"Too many consecutive errors">>]
     ELSE [stop |-> FALSE, reason |-> <<>>]

should_stop(task, completion_result) ==
  LET its == task.iterations
      recent_errors == RecentErrors(its)
      recent_responses == RecentResponses(its)
  IN IF completion_result.is_complete
       THEN [stop |-> TRUE, reason |-> completion_result.reason]
     ELSE IF task.current_iteration >= task.config.max_iterations
       THEN [stop |-> TRUE, reason |-> <<"Max iterations (", ToString(task.config.max_iterations), ") reached">>]
     ELSE IF Len(its) >= 5 /\ recent_errors >= 4
       THEN [stop |-> TRUE, reason |-> <<"Too many consecutive errors">>]
     ELSE IF Len(its) >= 3 /\ Cardinality(recent_responses) = 1
       THEN [stop |-> TRUE, reason |-> <<"Agent appears stuck (identical responses)">>]
     ELSE [stop |-> FALSE, reason |-> <<>>]

(* ------------------ loop_agent.py: RalphLoopAgent --------------------- *)
\* _run_iteration: the iteration record built from what the awaited calls
\* (context, LLM turn, backpressure) produced or raised.
run_iteration_SameNumber(task, input) ==
  LET it0 == NewIteration(task.current_iteration)
      promise_check == check_completion_promise(input.response,
                          task.config.completion_promise, task.config.completion_promise)
      it1 == [it0 EXCEPT !.agent_response = input.response,
                         !.tool_calls = input.tool_calls,
                         !.file_changes = input.file_changes,
                         !.completion_promise_found = promise_check.found,
                         !.completion_message = promise_check.match]
  IN IF input.llm_raises
       THEN IterationComplete([it0 EXCEPT !.error = "llm error"], "failed")
     ELSE IF input.bp_raises
       THEN IterationComplete([it1 EXCEPT !.error = "backpressure error"], "failed")
     ELSE IterationComplete([it1 EXCEPT !.backpressure_results = input.bp], "completed")

run_iteration(task, input) ==
  LET it0 == NewIteration(task.current_iteration + 1)
      promise_check == check_completion_promise(input.response,
                          task.config.completion_promise, task.config.completion_promise)
      it1 == [it0 EXCEPT !.agent_response = input.response,
                         !.tool_calls = input.tool_calls,
                         !.file_changes = input.file_changes,
                         !.completion_promise_found = promise_check.found,
                         !.completion_message = promise_check.match]
  IN IF input.llm_raises
       THEN IterationComplete([it0 EXCEPT !.error = "llm error"], "failed")
     ELSE IF input.bp_raises
       THEN IterationComplete([it1 EXCEPT !.error = "backpressure error"], "failed")
     ELSE IterationComplete([it1 EXCEPT !.backpressure_results = input.bp], "completed")

loop_top_NoBreak(task, is_cancelled) ==
  IF is_cancelled
    THEN [task |-> cancel(task), running |-> TRUE]
  ELSE IF task.current_iteration >= task.config.max_iterations
    THEN [task |-> timeout(task), running |-> FALSE]
  ELSE [task |-> task, running |-> TRUE]

loop_top_IgnoreCancel(task, is_cancelled) ==
  IF task.current_iteration >= task.config.max_iterations
    THEN [task |-> timeout(task), running |-> FALSE]
  ELSE [task |-> task, running |-> TRUE]

\* run_task, top of the while loop: cancellation, then max iterations.
\* running = FALSE when the loop was left (break).
loop_top(task, is_cancelled) ==
  IF is_cancelled
    THEN [task |-> cancel(task), running |-> FALSE]
  ELSE IF task.current_iteration >= task.config.max_iterations
    THEN [task |-> timeout(task), running |-> FALSE]
  ELSE [task |-> task, running |-> TRUE]

\* on_iteration_complete called without the try/except: its exception
\* leaves the call
iteration_callback_NoTry(cb_raises) == cb_raises

\* "try: self.on_iteration_complete(iteration) except Exception": TRUE when
\* an exception of the callback leaves the statement
iteration_callback(cb_raises) == FALSE

\* "try: self.on_task_complete(task) except Exception" in the finally block
task_callback(cb_raises) == FALSE

\* str(e) of an exception raised by a callback
CallbackError == <<"callback error">>

\* a loop that gives up as soon as a backpressure check has failed
after_iteration_StopOnFailedCheck(task, it, cb_raises) ==
  LET task1 == add_iteration(task, it)
      completion_result == check_completion(task1, it)
      stop == should_stop(task1, completion_result)
      failed_check == \E i \in 1..Len(it.backpressure_results) :
                         ~it.backpressure_results[i].passed
  IN IF stop.stop \/ failed_check
       THEN IF completion_result.is_complete
              THEN [task |-> complete(task1, completion_result, it.agent_response),
                    running |-> FALSE]
              ELSE [task |-> fail(task1, <<"Backpressure check failed">>), running |-> FALSE]
       ELSE [task |-> task1, running |-> TRUE]

\* run_task, after _run_iteration returned: record, callback, check
\* completion, stop. An exception in the loop body ends in
\* "except Exception: task.fail(str(e))".
after_iteration(task, it, cb_raises) ==
  LET task1 == add_iteration(task, it)
      completion_result == check_completion(task1, it)
      stop == should_stop(task1, completion_result)
  IN IF iteration_callback(cb_raises)
       THEN [task |-> fail(task1, CallbackError), running |-> FALSE]
     ELSE IF stop.stop
       THEN IF completion_result.is_complete
              THEN [task |-> complete(task1, completion_result, it.agent_response),
                    running |-> FALSE]
              ELSE [task |-> fail(task1, stop.reason), running |-> FALSE]
       ELSE [task |-> task1, running |-> TRUE]

agent_cancel_task_Always(task_id, in_tasks, cancelled) ==
  [cancelled |-> cancelled \cup {task_id}, ret |-> TRUE]

\* cancel_task: the request is recorded only for a task in _tasks
agent_cancel_task(task_id, in_tasks, cancelled) ==
  IF task_id \in in_tasks
    THEN [cancelled |-> cancelled \cup {task_id}, ret |-> TRUE]
    ELSE [cancelled |-> cancelled, ret |-> FALSE]

(* -------------------- tools.py: path confinement --------------------- *)
\* A path is a sequence of components, a component and a rendered path are
\* sequences of characters.
DotDot == <<".", ".">>
NameW  == <<"w">>
NameW2 == <<"w", "2">>
NameF  == <<"f">>

WorkDir == <<NameW>>

\* what is on disk: directories / , /w , /w2 and files /w/f , /w2/f
Dirs == { <<>>, <<NameW>>, <<NameW2>> }
FilesOnDisk == { <<NameW, NameF>>, <<NameW2, NameF>> }
Exists(p) == p \in Dirs \cup FilesOnDisk

PathParts == {DotDot, NameW, NameW2, NameF}

RECURSIVE SeqsUpTo(_, _)
SeqsUpTo(S, n) ==
  IF n = 0 THEN { <<>> }
  ELSE LET shorter == SeqsUpTo(S, n - 1)
       IN shorter \cup { Append(q, x) : q \in shorter, x \in S }

\* the path arguments a tool may be called with
PathInputs == [absolute : BOOLEAN, parts : SeqsUpTo(PathParts, MaxPathLen)]

\* Path.__truediv__: an absolute right operand replaces the left one
JoinPath(dir, path) == IF path.absolute THEN path.parts ELSE dir \o path.parts

\* Path.resolve(): ".." removes the component before it (and stays at the root)
RECURSIVE Normalize(_, _)
Normalize(done, rest) ==
  IF rest = <<>> THEN done
  ELSE IF Head(rest) = DotDot
    THEN Normalize(IF done = <<>> THEN <<>> ELSE SubSeq(done, 1, Len(done) - 1), Tail(rest))
  ELSE Normalize(Append(done, Head(rest)), Tail(rest))

Resolve(parts) == Normalize(<<>>, parts)

\* str(Path)
RECURSIVE PathStr(_)
PathStr(parts) ==
  IF parts = <<>> THEN <<"/">>
  ELSE IF Len(parts) = 1 THEN <<"/">> \o parts[1]
  ELSE PathStr(SubSeq(parts, 1, Len(parts) - 1)) \o <<"/">> \o parts[Len(parts)]

\* str.startswith
StartsWith(str, prefix) ==
  Len(prefix) <= Len(str) /\ SubSeq(str, 1, Len(prefix)) = prefix

\* the location is the directory itself or below it
IsInside(resolved, dir) ==
  Len(dir) <= Len(resolved) /\ SubSeq(resolved, 1, Len(dir)) = dir

\* _resolve_path: ok = FALSE when it raises ValueError
resolve_path(wd, path) ==
  LET resolved == Resolve(JoinPath(wd, path))
  IN [ok |-> StartsWith(PathStr(resolved), PathStr(wd)), resolved |-> resolved]

PathTools == {"read_file", "write_file", "edit_file", "list_files", "search_files",
              "create_directory", "delete_file"}

\* some proper ancestor of p is a regular file
UnderFile(p) == \E n \in 1..(Len(p) - 1) : SubSeq(p, 1, n) \in FilesOnDisk

Op(kind, p) == [op |-> kind, path |-> p]

\* the _tool_<name> methods after _resolve_path returned full_path:
\* the result's "error" key (None when absent) and the reads and writes made
tool_body(tool_name, full_path, text_found) ==
  CASE tool_name = "read_file" ->
         IF ~Exists(full_path) THEN [error |-> "File not found", fs_ops |-> {}]
         ELSE IF full_path \notin FilesOnDisk THEN [error |-> "Not a file", fs_ops |-> {}]
         ELSE [error |-> None, fs_ops |-> {Op("read", full_path)}]
    [] tool_name = "write_file" ->
         IF UnderFile(full_path) \/ full_path \in Dirs
           THEN [error |-> "Failed to write file", fs_ops |-> {}]
           ELSE [error |-> None, fs_ops |-> {Op("write", full_path)}]
    [] tool_name = "edit_file" ->
         IF ~Exists(full_path) THEN [error |-> "File not found", fs_ops |-> {}]
         ELSE IF full_path \in Dirs THEN [error |-> "Failed to edit file", fs_ops |-> {}]
         ELSE IF ~text_found
           THEN [error |-> "Text not found in file", fs_ops |-> {Op("read", full_path)}]
         ELSE [error |-> None, fs_ops |-> {Op("read", full_path), Op("write", full_path)}]
    [] tool_name = "list_files" ->
         IF ~Exists(full_path) THEN [error |-> "Directory not found", fs_ops |-> {}]
         ELSE IF full_path \in FilesOnDisk THEN [error |-> "Failed to list files", fs_ops |-> {}]
         ELSE [error |-> None, fs_ops |-> {Op("read", full_path)}]
    [] tool_name = "search_files" ->
         IF ~Exists(full_path) THEN [error |-> None, fs_ops |-> {}]
         ELSE [error |-> None, fs_ops |-> {Op("read", full_path)}]
    [] tool_name = "create_directory" ->
         IF UnderFile(full_path) \/ full_path \in FilesOnDisk
           THEN [error |-> "Failed to create directory", fs_ops |-> {}]
           ELSE [error |-> None, fs_ops |-> {Op("write", full_path)}]
    [] tool_name = "delete_file" ->
         IF ~Exists(full_path) THEN [error |-> "Path not found", fs_ops |-> {}]
         ELSE IF full_path \in FilesOnDisk THEN [error |-> None, fs_ops |-> {Op("write", full_path)}]
         ELSE [error |-> "Failed to delete", fs_ops |-> {}]

\* A command string is a sequence of pieces of text; "d in command" is
\* membership of the piece d.
Denylist == {"rm -rf /", "mkfs", "> /dev/", "dd if="}

CommandTokens == {"make test", "x.py", "rm -rf /", "dd if="}

\* the texts a tool argument or a configured command may be
CommandTexts == SeqsUpTo(CommandTokens, MaxCommandLen)

NoPath == [absolute |-> FALSE, parts |-> <<>>]

\* grep_cmd of _tool_search_files (allow_shell, default context_lines)
grep_command(pattern) == <<"grep -rn", "-C 2", "'">> \o pattern \o <<"'", "<full_path>">>

\* _run_shell_command: the subprocess is spawned with the command as given
run_shell_command(command) == [error |-> None, spawned |-> {command}]

\* _tool_run_command (allow_shell is True in run_task)
tool_run_command(command) ==
  IF \E d \in Denylist : Contains(command, d)
    THEN [error |-> "Dangerous command blocked", spawned |-> {}]
    ELSE run_shell_command(command)

\* _tool_git_diff with a path
tool_git_diff(path) ==
  run_shell_command(IF path = <<>> THEN <<"git diff">> ELSE <<"git diff", "--">> \o path)

\* _tool_git_commit: quotes inside the message are escaped, the message
\* itself is part of the command string
tool_git_commit(message) ==
  run_shell_command(<<"git commit -m", "'">> \o message \o <<"'">>)

\* _tool_search_files with its default path
tool_search_files(pattern) == run_shell_command(grep_command(pattern))

ShellTools == {"run_command", "git_diff", "git_commit", "search_files"}

\* a tool name for which the toolkit has no _tool_<name> method
UnknownTool == "format_disk"

NoToolCall == [tool_name |-> None, path |-> NoPath, text |-> <<>>, text_found |-> FALSE,
               error |-> None, result_error |-> None, fs_ops |-> {}, spawned |-> {}]

\* execute_tool that keeps nothing of the method's result
execute_tool_LosesResult(wd, tool_name, path, text_found) ==
  LET r == resolve_path(wd, path)
      body == tool_body(tool_name, r.resolved, text_found)
  IN [tool_name |-> tool_name, path |-> path, text |-> <<>>, text_found |-> text_found,
      error |-> IF r.ok THEN None ELSE "Path is outside working directory",
      result_error |-> None, fs_ops |-> IF r.ok THEN body.fs_ops ELSE {},
      spawned |-> {}]

\* execute_tool: a ValueError of _resolve_path lands in ToolCall.error
execute_tool(wd, tool_name, path, text_found) ==
  LET r == resolve_path(wd, path)
      body == tool_body(tool_name, r.resolved, text_found)
  IN IF ~r.ok
       THEN [tool_name |-> tool_name, path |-> path, text |-> <<>>,
             text_found |-> text_found,
             error |-> "Path is outside working directory",
             result_error |-> None, fs_ops |-> {}, spawned |-> {}]
       ELSE [tool_name |-> tool_name, path |-> path, text |-> <<>>,
             text_found |-> text_found, error |-> None,
             result_error |-> body.error, fs_ops |-> body.fs_ops,
             spawned |-> IF tool_name = "search_files"
                           THEN {grep_command(<<"TODO">>)} ELSE {}]

\* execute_tool for the tools that take a text: the method's result goes to
\* ToolCall.result, only a missing method or an exception sets ToolCall.error
execute_text_tool(tool_name, text) ==
  LET body == CASE tool_name = "run_command" -> tool_run_command(text)
                [] tool_name = "git_diff" -> tool_git_diff(text)
                [] tool_name = "git_commit" -> tool_git_commit(text)
                [] tool_name = "search_files" -> tool_search_files(text)
                [] OTHER -> [error |-> None, spawned |-> {}]
  IN IF tool_name \notin ShellTools
       THEN [tool_name |-> tool_name, path |-> NoPath, text |-> text,
             text_found |-> FALSE, error |-> "Unknown tool",
             result_error |-> None, fs_ops |-> {}, spawned |-> {}]
       ELSE [tool_name |-> tool_name, path |-> NoPath, text |-> text,
             text_found |-> FALSE, error |-> None,
             result_error |-> body.error, fs_ops |-> {}, spawned |-> body.spawned]

\* RalphLoopAgent._run_check: the configured or detected command of a
\* backpressure check goes to _run_shell_command as it is
run_check(check_type, command) ==
  LET result == run_shell_command(command)
  IN [tool_name |-> check_type, path |-> NoPath, text |-> command,
      text_found |-> FALSE, error |-> None,
      result_error |-> result.error, fs_ops |-> {}, spawned |-> result.spawned]

\* FileChange(path=path, action=...)
FileChange(path, action) == [path |-> path, action |-> action]

\* _tool_write_file, _tool_edit_file and _tool_delete_file on a resolved
\* path, where disk is the set of regular files: the FileChange appended to
\* self.file_changes (none when the tool returns an error) and the files
\* on disk afterwards
tool_file_change(disk, tool_name, path, full_path, text_found) ==
  CASE tool_name = "write_file" ->
         IF UnderFile(full_path) \/ full_path \in Dirs
           THEN [changes |-> <<>>, disk |-> disk]
           ELSE [changes |-> <<FileChange(path, IF full_path \in disk THEN "modify"
                                                                      ELSE "create")>>,
                 disk |-> disk \cup {full_path}]
    [] tool_name = "edit_file" ->
         IF full_path \in disk /\ text_found
           THEN [changes |-> <<FileChange(path, "modify")>>, disk |-> disk]
           ELSE [changes |-> <<>>, disk |-> disk]
    [] tool_name = "delete_file" ->
         IF full_path \in disk
           THEN [changes |-> <<FileChange(path, "delete")>>, disk |-> disk \ {full_path}]
           ELSE [changes |-> <<>>, disk |-> disk]
    [] OTHER -> [changes |-> <<>>, disk |-> disk]

\* get_file_changes: a copy of the buffer is returned and the buffer cleared
get_file_changes(file_changes) == [changes |-> file_changes, file_changes |-> <<>>]

(* ----------------------- tools.py: _tool_edit_file ---------------------- *)
\* "old_text in content": old occurs in str as a substring
Occurs(old, str) ==
  \E i \in 0..(Len(str) - Len(old)) : SubSeq(str, i + 1, i + Len(old)) = old

\* str.replace(old, new): the occurrences of old are found from the left
\* and do not overlap; an empty old matches before every character and at
\* the end
RECURSIVE str_replace(_, _, _)
str_replace(str, old, new) ==
  IF old = <<>>
    THEN IF str = <<>> THEN new
         ELSE new \o <<Head(str)>> \o str_replace(Tail(str), old, new)
  ELSE IF Len(str) < Len(old) THEN str
  ELSE IF SubSeq(str, 1, Len(old)) = old
    THEN new \o str_replace(SubSeq(str, Len(old) + 1, Len(str)), old, new)
  ELSE <<Head(str)>> \o str_replace(Tail(str), old, new)

\* _tool_edit_file(path, old_text, new_text, replace_all=True) on an
\* existing file: its result's error and the content written
tool_edit_file(content, old_text, new_text) ==
  IF ~Occurs(old_text, content)
    THEN [error |-> "Text not found in file", content |-> content]
    ELSE [error |-> None, content |-> str_replace(content, old_text, new_text)]

(* ------------- subprocesses: _run_shell_command, _run_check ------------ *)
\* A subprocess as the toolkit meets it: whether it can be spawned, how long
\* it runs (seconds), what it has written to stdout by the time it ends or
\* is killed, and its exit code.
Process(spawns, duration, exit_code) ==
  [spawns |-> spawns, duration |-> duration, exit_code |-> exit_code, stdout |-> "out"]

\* _run_shell_command(command, timeout): the dict returned (an absent key
\* is <<>>), and whether the child was killed
run_shell_command_result(process, seconds) ==
  IF ~process.spawns
    THEN [error |-> "Command execution failed", exit_code |-> <<>>, success |-> <<>>,
          stdout |-> <<>>, killed |-> FALSE]
  ELSE IF process.duration > seconds
    THEN [error |-> "Command timed out", exit_code |-> <<-1>>, success |-> <<>>,
          stdout |-> <<>>, killed |-> TRUE]
  ELSE [error |-> None, exit_code |-> <<process.exit_code>>,
        success |-> <<process.exit_code = 0>>, stdout |-> <<process.stdout>>,
        killed |-> FALSE]

\* dict.get(key, default) on such a dict
Get(value, default) == IF value = <<>> THEN default ELSE value[1]

\* "timeout = min(timeout, 300)"
MaxCommandTimeout == 300

\* _tool_run_command with shell commands allowed and a harmless command
tool_run_command_result(process, seconds) ==
  run_shell_command_result(process, IF seconds < MaxCommandTimeout THEN seconds
                                                                   ELSE MaxCommandTimeout)

\* "toolkit._run_shell_command(command, timeout=120)"
CheckTimeout == 120

\* _run_check with a passed flag that takes a missing exit code for 0
backpressure_result_DefaultZero(check_type, process, raises) ==
  LET result == run_shell_command_result(process, CheckTimeout)
  IN IF raises
       THEN [check_type |-> check_type, passed |-> FALSE, errors |-> 1]
       ELSE [check_type |-> check_type,
             passed |-> Get(result.success, FALSE) \/ Get(result.exit_code, 0) = 0,
             errors |-> 0]

\* _run_check: the BackpressureResult; raises = the awaited
\* _run_shell_command call raised instead of returning
backpressure_result(check_type, process, raises) ==
  LET result == run_shell_command_result(process, CheckTimeout)
  IN IF raises
       THEN [check_type |-> check_type, passed |-> FALSE, errors |-> 1]
       ELSE [check_type |-> check_type,
             passed |-> Get(result.success, FALSE) \/ Get(result.exit_code, 1) = 0,
             errors |-> 0]

\* _detect_test_command, _detect_lint_command, _detect_typecheck_command,
\* _detect_build_command: files are the signature files in the working
\* directory, None when nothing is detected
detect_command(check_type, files) ==
  CASE check_type = "test" ->
         IF "pytest.ini" \in files \/ "pyproject.toml" \in files THEN "pytest -v"
         ELSE IF "setup.py" \in files THEN "python -m pytest"
         ELSE IF "package.json" \in files THEN "npm test"
         ELSE IF "go.mod" \in files THEN "go test ./..."
         ELSE IF "Cargo.toml" \in files THEN "cargo test"
         ELSE None
    [] check_type = "lint" ->
         IF "pyproject.toml" \in files \/ ".flake8" \in files
           THEN "ruff check . || flake8 ."
         ELSE IF "package.json" \in files THEN "npm run lint 2>/dev/null || eslint ."
         ELSE IF "go.mod" \in files THEN "golangci-lint run 2>/dev/null || go vet ./..."
         ELSE None
    [] check_type = "typecheck" ->
         IF "pyproject.toml" \in files THEN "mypy . 2>/dev/null || true"
         ELSE IF "tsconfig.json" \in files THEN "tsc --noEmit"
         ELSE None
    [] check_type = "build" ->
         IF "package.json" \in files THEN "npm run build"
         ELSE IF "go.mod" \in files THEN "go build ./..."
         ELSE IF "Cargo.toml" \in files THEN "cargo build"
         ELSE None

CheckTypes == <<"test", "lint", "typecheck", "build">>

\* "task.config.test_command or self._detect_test_command(...)"
resolve_command(config, check_type, files) ==
  IF config.command[check_type] # None THEN config.command[check_type]
  ELSE detect_command(check_type, files)

\* _run_backpressure: for each enabled check in turn, the command is
\* resolved and, if there is one, run
RECURSIVE run_backpressure(_, _, _, _, _)
run_backpressure(config, files, processes, raises, types) ==
  IF types = <<>> THEN <<>>
  ELSE LET check_type == Head(types)
           rest == run_backpressure(config, files, processes, raises, Tail(types))
       IN IF config.run[check_type] /\ resolve_command(config, check_type, files) # None
            THEN <<backpressure_result(check_type, processes[check_type],
                                       raises[check_type])>> \o rest
            ELSE rest

\* the backpressure step of _run_iteration
iteration_backpressure(config, files, processes, raises) ==
  IF config.run["test"] \/ config.run["lint"] \/ config.run["typecheck"]
    THEN run_backpressure(config, files, processes, raises, CheckTypes)
    ELSE <<>>

(* ------------------- loop_agent.py: _call_claude ----------------------- *)
max_tool_rounds == 10

\* the content blocks of a reply of the Messages API
TextBlock(text) ==
  [type |-> "text", text |-> text, id |-> <<>>, name |-> None, path |-> NoPath,
   text_found |-> FALSE]

ToolUseBlock(name, path, text_found) ==
  [type |-> "tool_use", text |-> None, id |-> <<>>, name |-> name, path |-> path,
   text_found |-> text_found]

ClaudeReply(content, stop_reason) == [content |-> content, stop_reason |-> stop_reason]

\* what the API may answer to one request: text and a tool use; two tool
\* uses (a text that is not found, a path outside the working directory);
\* text only; complete_task with end_turn and with more to come; a reply
\* cut short
ClaudeReplies ==
  { ClaudeReply(<<TextBlock("reading the file"),
                  ToolUseBlock("read_file", [absolute |-> FALSE, parts |-> <<NameF>>], TRUE)>>,
                "tool_use"),
    ClaudeReply(<<ToolUseBlock("edit_file", [absolute |-> FALSE, parts |-> <<NameF>>], FALSE),
                  ToolUseBlock("read_file",
                               [absolute |-> FALSE, parts |-> <<DotDot, NameF>>], TRUE)>>,
                "tool_use"),
    ClaudeReply(<<TextBlock("all done")>>, "end_turn"),
    ClaudeReply(<<TextBlock("finishing"), ToolUseBlock("complete_task", NoPath, FALSE)>>,
                "end_turn"),
    ClaudeReply(<<ToolUseBlock("complete_task", NoPath, FALSE)>>, "tool_use"),
    ClaudeReply(<<TextBlock("and then")>>, "max_tokens") }

\* the ids the API gives the tool_use blocks: unique within the turn
StampIds(reply, round) ==
  [reply EXCEPT !.content =
     [i \in 1..Len(reply.content) |->
        IF reply.content[i].type = "tool_use"
          THEN [reply.content[i] EXCEPT !.id = <<round, i>>]
          ELSE reply.content[i]]]

\* toolkit.execute_tool for a tool_use block
block_execute_tool(wd, block) ==
  IF block.name = "complete_task"
    THEN [tool_name |-> block.name, error |-> None, result_error |-> None]
    ELSE LET tc == execute_tool(wd, block.name, block.path, block.text_found)
         IN [tool_name |-> tc.tool_name, error |-> tc.error, result_error |-> tc.result_error]

\* the local variables of _call_claude
NewTurn ==
  [full_response |-> <<>>, tool_calls |-> <<>>,
   messages |-> <<[role |-> "user", content |-> <<"prompt">>]>>,
   assistant_content |-> <<>>, has_tool_use |-> FALSE]

\* a loop over the blocks that runs the tools and keeps their results out
\* of the message history
RECURSIVE process_blocks_NoToolResult(_, _, _)
process_blocks_NoToolResult(wd, blocks, acc) ==
  IF blocks = <<>> THEN acc
  ELSE LET block == Head(blocks)
       IN IF block.type = "text"
            THEN process_blocks_NoToolResult(wd, Tail(blocks),
                   [acc EXCEPT !.full_response = @ \o <<block.text, "\n">>,
                               !.assistant_content = Append(@, block)])
            ELSE process_blocks_NoToolResult(wd, Tail(blocks),
                   [acc EXCEPT
                      !.has_tool_use = TRUE,
                      !.tool_calls = Append(@, block_execute_tool(wd, block)),
                      !.messages = Append(@, [role |-> "assistant",
                                              content |-> Append(acc.assistant_content, block)]),
                      !.assistant_content = <<>>])

\* a loop over the blocks that answers every tool use with a result
\* without error
RECURSIVE process_blocks_HideToolError(_, _, _)
process_blocks_HideToolError(wd, blocks, acc) ==
  IF blocks = <<>> THEN acc
  ELSE LET block == Head(blocks)
       IN IF block.type = "text"
            THEN process_blocks_HideToolError(wd, Tail(blocks),
                   [acc EXCEPT !.full_response = @ \o <<block.text, "\n">>,
                               !.assistant_content = Append(@, block)])
            ELSE process_blocks_HideToolError(wd, Tail(blocks),
                   [acc EXCEPT
                      !.has_tool_use = TRUE,
                      !.tool_calls = Append(@, block_execute_tool(wd, block)),
                      !.messages = @ \o
                         << [role |-> "assistant",
                             content |-> Append(acc.assistant_content, block)],
                            [role |-> "user",
                             content |-> <<[type |-> "tool_result",
                                            tool_use_id |-> block.id,
                                            content |-> [error |-> None]]>>] >>,
                      !.assistant_content = <<>>,
                      !.full_response =
                         IF block.name = "complete_task"
                           THEN @ \o <<"\n", DefaultPromise, "\n", "Summary: finished">>
                           ELSE @])

\* "for block in response.content"
RECURSIVE process_blocks(_, _, _)
process_blocks(wd, blocks, acc) ==
  IF blocks = <<>> THEN acc
  ELSE LET block == Head(blocks)
       IN IF block.type = "text"
            THEN process_blocks(wd, Tail(blocks),
                   [acc EXCEPT !.full_response = @ \o <<block.text, "\n">>,
                               !.assistant_content = Append(@, block)])
            ELSE LET tool_call == block_execute_tool(wd, block)
                     tool_result == [error |-> IF tool_call.error # None
                                                 THEN tool_call.error
                                                 ELSE tool_call.result_error]
                 IN process_blocks(wd, Tail(blocks),
                      [acc EXCEPT
                         !.has_tool_use = TRUE,
                         !.tool_calls = Append(@, tool_call),
                         !.messages = @ \o
                            << [role |-> "assistant",
                                content |-> Append(acc.assistant_content, block)],
                               [role |-> "user",
                                content |-> <<[type |-> "tool_result",
                                               tool_use_id |-> block.id,
                                               content |-> tool_result]>>] >>,
                         !.assistant_content = <<>>,
                         !.full_response =
                            IF block.name = "complete_task"
                              THEN @ \o <<"\n", DefaultPromise, "\n", "Summary: finished">>
                              ELSE @])

\* a loop that goes on after a reply with stop reason end_turn
next_round_IgnoreEndTurn(has_tool_use, stop_reason, requests) ==
  has_tool_use /\ requests < max_tool_rounds

\* the end of the loop body: TRUE when another request is made
next_round(has_tool_use, stop_reason, requests) ==
  has_tool_use /\ stop_reason # "end_turn" /\ requests < max_tool_rounds

\* str.strip()
RECURSIVE strip(_)
strip(text) ==
  IF text = <<>> THEN text
  ELSE IF Head(text) = "\n" THEN strip(Tail(text))
  ELSE IF Last(text) = "\n" THEN strip(SubSeq(text, 1, Len(text) - 1))
  ELSE text

(* ------------------------------ state --------------------------------- *)
VARIABLES
  tasks,            \* the RalphTask objects, by id
  pc,               \* where each task's asyncio task (run_with_semaphore) stands
  agent_tasks,      \* RalphLoopAgent._tasks (ids)
  agent_cancelled,  \* RalphLoopAgent._cancelled
  running_tasks,    \* RalphTaskRunner._running_tasks (ids)
  completed_tasks,  \* RalphTaskRunner._completed_tasks (ids)
  sem_value,        \* RalphTaskRunner._semaphore: free slots
  sem_waiters,      \* RalphTaskRunner._semaphore: queue of waiting tasks
  cancel_req,       \* history: the first cancel request accepted for each task
  last_call,        \* the client call made in the last step and what it returned
  ready,            \* the event loop's queue of asyncio tasks due to run (call_soon order)
  working_dir,      \* RalphToolkit.working_dir (resolved), as path components
  tool_call,        \* the last ToolCall returned by execute_tool (or the last backpressure
                    \* check), with what it did on disk and the subprocesses it spawned
  detection,        \* the last check_completion call: its arguments and its result
  turn,             \* one LLM turn (_call_claude within _run_iteration): where it
                    \* stands, its local variables, the replies received so far and
                    \* the iteration _run_iteration made of it
  run,              \* one run_task with its toolkit: the task, where its iteration
                    \* stands, RalphToolkit.file_changes, the files in the working
                    \* directory, and (history) the changes made in each iteration
  shell,            \* the last use of _run_shell_command: by the backpressure step
                    \* of _run_iteration or by the run_command tool, with the
                    \* subprocesses it met and what it returned
  file              \* one file of the working directory: its content as a sequence
                    \* of characters, and the edit_file calls made on it with the
                    \* content after each

toolkit_vars == <<working_dir, tool_call, turn, run, shell, file>>

detector_vars == <<detection>>

runner_vars == <<tasks, pc, agent_tasks, agent_cancelled, running_tasks, completed_tasks,
                 sem_value, sem_waiters, cancel_req, last_call, ready>>

vars == <<tasks, pc, agent_tasks, agent_cancelled, running_tasks, completed_tasks,
          sem_value, sem_waiters, cancel_req, last_call, ready, working_dir, tool_call, turn,
          run, shell, file, detection>>

\* pc values:
\*   unsubmitted  not yet passed to submit_task
\*   scheduled    asyncio.create_task done, coroutine not started
\*   queued       waiting in "async with self._semaphore"
\*   woken        slot handed over by a release, coroutine not yet resumed
\*   iterating    inside run_task, awaiting in _run_iteration
\*   sleeping     inside run_task, awaiting asyncio.sleep(1)
\*   done         run_with_semaphore returned
\*   aborted      the asyncio task was cancelled (CancelledError)
InRunTask(t) == pc[t] \in {"iterating", "sleeping"}

NoCall == [op |-> "none", id |-> 0, ret |-> <<>>]

NoCancel == [accepted |-> FALSE, at |-> 0, inflight |-> FALSE]

NoTurn == [pos |-> "idle", requests |-> 0, replies |-> <<>>, locals |-> NewTurn,
           iteration |-> <<>>]

NoShell == [op |-> "none"]

\* run_task after task.start() and the creation of the toolkit
NoRun ==
  [pos |-> "idle",
   task |-> start(NewTask([max_iterations |-> MaxIterations,
                           completion_promise |-> DefaultPromise])),
   file_changes |-> <<>>, disk |-> FilesOnDisk, calls |-> 0, made_in |-> <<>>]

Init ==
  /\ tasks = [t \in Tasks |-> NewTask([max_iterations |-> MaxIterations,
                                         completion_promise |-> DefaultPromise])]
  /\ pc = [t \in Tasks |-> "unsubmitted"]
  /\ agent_tasks = {}
  /\ agent_cancelled = {}
  /\ running_tasks = {}
  /\ completed_tasks = {}
  /\ sem_value = MaxConcurrent
  /\ sem_waiters = <<>>
  /\ cancel_req = [t \in Tasks |-> NoCancel]
  /\ last_call = NoCall
  /\ ready = <<>>
  /\ working_dir = WorkDir
  /\ tool_call = NoToolCall
  /\ detection = <<>>
  /\ turn = NoTurn
  /\ run = NoRun
  /\ shell = NoShell
  /\ file = [written |-> FALSE, content |-> <<>>, edits |-> <<>>, contents |-> <<>>]

(* ---------------- asyncio.Semaphore as used by the runner ------------- *)
\* The semaphore as a value: free slots, queue of waiters, and the waiters
\* woken (handed a slot) by the operation at hand.
Sem == [value |-> sem_value, waiters |-> sem_waiters, woken |-> <<>>]

sem_locked_Never(sem, pcs) == FALSE

\* Semaphore.locked(): no free slot, or somebody is already in line
sem_locked(sem, pcs) ==
  sem.value = 0 \/ sem.waiters # <<>> \/ \E t \in Tasks : pcs[t] = "woken"

\* a semaphore that wakes the waiter that came last
wake_up_next_Last(sem) ==
  IF sem.waiters # <<>>
    THEN [value |-> sem.value - 1,
          waiters |-> SubSeq(sem.waiters, 1, Len(sem.waiters) - 1),
          woken |-> Append(sem.woken, Last(sem.waiters))]
    ELSE sem

\* Semaphore._wake_up_next(): the first waiter gets a slot
wake_up_next(sem) ==
  IF sem.waiters # <<>>
    THEN [value |-> sem.value - 1, waiters |-> Tail(sem.waiters),
          woken |-> Append(sem.woken, Head(sem.waiters))]
    ELSE sem

\* Semaphore.release(), at the end of "async with self._semaphore"
sem_release(sem) == wake_up_next([sem EXCEPT !.value = @ + 1])

\* Semaphore.acquire() without waiting
sem_take(sem) == [sem EXCEPT !.value = @ - 1]

\* Semaphore.acquire(), the part after the wait
sem_resumed(sem) == IF sem.value > 0 THEN wake_up_next(sem) ELSE sem

\* the asyncio tasks that stay due to run when the coroutines stand at pcs
StillReady(pcs) == SelectSeq(ready, LAMBDA u : pcs[u] \in {"scheduled", "woken"})

\* the woken waiters are scheduled in the order they were woken
SetSem(sem, pcs) ==
  /\ sem_value' = sem.value
  /\ sem_waiters' = sem.waiters
  /\ pc' = [t \in Tasks |-> IF Contains(sem.woken, t) THEN "woken" ELSE pcs[t]]
  /\ ready' = StillReady(pcs) \o sem.woken

(* ------------------ run_task, stretch by stretch ---------------------- *)
\* run_task "finally" (cleanup, on_task_complete -> _on_task_complete),
\* then the end of "async with self._semaphore".
Finally(t, task, endpc, sem) ==
  /\ tasks' = [tasks EXCEPT ![t] = task]
  /\ agent_tasks' = agent_tasks \ {t}
  /\ agent_cancelled' = agent_cancelled \ {t}
  /\ running_tasks' = running_tasks \ {t}
  /\ completed_tasks' = completed_tasks \cup {t}
  /\ SetSem(sem_release(sem), [pc EXCEPT ![t] = endpc])

\* run_task from its first line to the first await (or to its end);
\* sem is the semaphore once the slot is taken
EnterRunTask(t, sem) ==
  LET top == loop_top(start(tasks[t]), t \in agent_cancelled)
  IN IF top.running
       THEN /\ tasks' = [tasks EXCEPT ![t] = top.task]
            /\ agent_tasks' = agent_tasks \cup {t}
            /\ SetSem(sem, [pc EXCEPT ![t] = "iterating"])
            /\ UNCHANGED <<agent_cancelled, running_tasks, completed_tasks>>
       ELSE Finally(t, top.task, "done", sem)

\* submit_task: create the asyncio task and register it
SubmitTask(t, config) ==
  /\ pc[t] = "unsubmitted"
  /\ tasks' = [tasks EXCEPT ![t] = NewTask(config)]
  /\ pc' = [pc EXCEPT ![t] = "scheduled"]
  /\ ready' = Append(ready, t)
  /\ running_tasks' = running_tasks \cup {t}
  /\ UNCHANGED <<toolkit_vars, detector_vars>>
  /\ last_call' = NoCall
  /\ UNCHANGED <<agent_tasks, agent_cancelled, completed_tasks, sem_value, sem_waiters,
                 cancel_req>>

\* run_with_semaphore starts: takes a slot and enters run_task
StartAcquire(t) ==
  /\ pc[t] = "scheduled"
  /\ Head(ready) = t
  /\ ~sem_locked(Sem, pc)
  /\ EnterRunTask(t, sem_take(Sem))
  /\ UNCHANGED <<toolkit_vars, detector_vars>>
  /\ last_call' = NoCall
  /\ UNCHANGED cancel_req

\* run_with_semaphore starts: no slot, it queues
StartQueue(t) ==
  /\ pc[t] = "scheduled"
  /\ Head(ready) = t
  /\ sem_locked(Sem, pc)
  /\ pc' = [pc EXCEPT ![t] = "queued"]
  /\ ready' = Tail(ready)
  /\ sem_waiters' = Append(sem_waiters, t)
  /\ UNCHANGED <<toolkit_vars, detector_vars>>
  /\ last_call' = NoCall
  /\ UNCHANGED <<tasks, agent_tasks, agent_cancelled, running_tasks, completed_tasks,
                 sem_value, cancel_req>>

\* a task that was handed a slot resumes and enters run_task
Resume(t) ==
  /\ pc[t] = "woken"
  /\ Head(ready) = t
  /\ EnterRunTask(t, sem_resumed(Sem))
  /\ UNCHANGED <<toolkit_vars, detector_vars>>
  /\ last_call' = NoCall
  /\ UNCHANGED cancel_req

\* the awaited part of an iteration returns; the loop body runs to the
\* sleep or to the end of run_task
\* cb_raises: the callbacks called in this stretch raise an Exception (the
\* warning logged for it is what last_call keeps)
IterationDone(t, input, cb_raises) ==
  /\ pc[t] = "iterating"
  /\ LET r == after_iteration(tasks[t], run_iteration(tasks[t], input), cb_raises)
     IN IF r.running
          THEN /\ tasks' = [tasks EXCEPT ![t] = r.task]
               /\ pc' = [pc EXCEPT ![t] = "sleeping"]
               /\ UNCHANGED <<agent_tasks, agent_cancelled, running_tasks,
                              completed_tasks, sem_value, sem_waiters, ready>>
          ELSE Finally(t, r.task, IF task_callback(cb_raises) THEN "raised" ELSE "done", Sem)
  /\ UNCHANGED <<toolkit_vars, detector_vars>>
  /\ last_call' = IF cb_raises THEN [op |-> "callback_error", id |-> t, ret |-> <<>>]
                               ELSE NoCall
  /\ UNCHANGED cancel_req

\* asyncio.sleep(1) returns; top of the while loop
SleepDone(t) ==
  /\ pc[t] = "sleeping"
  /\ LET top == loop_top(tasks[t], t \in agent_cancelled)
     IN IF top.running
          THEN /\ tasks' = [tasks EXCEPT ![t] = top.task]
               /\ pc' = [pc EXCEPT ![t] = "iterating"]
               /\ UNCHANGED <<agent_tasks, agent_cancelled, running_tasks,
                              completed_tasks, sem_value, sem_waiters, ready>>
          ELSE Finally(t, top.task, "done", Sem)
  /\ UNCHANGED <<toolkit_vars, detector_vars>>
  /\ last_call' = NoCall
  /\ UNCHANGED cancel_req

(* --------------------- RalphTaskRunner: client calls ------------------ *)
\* get_status: completed registry first, then the agent's running tasks
get_status(task_id) ==
  IF task_id \in completed_tasks
    THEN <<get_summary(tasks[task_id])>>
  ELSE IF task_id \in agent_tasks
    THEN <<get_summary(tasks[task_id])>>
  ELSE <<>>

GetStatus(t) ==
  /\ UNCHANGED <<toolkit_vars, detector_vars>>
  /\ last_call' = [op |-> "status", id |-> t, ret |-> get_status(t)]
  /\ UNCHANGED <<tasks, pc, agent_tasks, agent_cancelled, running_tasks, completed_tasks,
                 sem_value, sem_waiters, cancel_req, ready>>

\* cancel_task -> RalphLoopAgent.cancel_task
CancelTask(t) ==
  LET r == agent_cancel_task(t, agent_tasks, agent_cancelled)
  IN /\ agent_cancelled' = r.cancelled
     /\ UNCHANGED <<toolkit_vars, detector_vars>>
     /\ last_call' = [op |-> "cancel", id |-> t, ret |-> <<[returned |-> r.ret]>>]
     /\ cancel_req' = IF r.ret /\ ~cancel_req[t].accepted
                        THEN [cancel_req EXCEPT ![t] =
                               [accepted |-> TRUE, at |-> tasks[t].current_iteration,
                                inflight |-> pc[t] = "iterating"]]
                        ELSE cancel_req
     /\ UNCHANGED <<tasks, pc, agent_tasks, running_tasks, completed_tasks,
                    sem_value, sem_waiters, ready>>

\* wait_for_task returns.  A call made while the id is in _running_tasks
\* awaits the asyncio task and returns run_task's result once that task is
\* done, by when _on_task_complete has moved the id to _completed_tasks; a
\* call made when the id is not in _running_tasks returns at once.  Both
\* return the task object of the completed registry (None for an unknown id).
WaitForTask(t) ==
  /\ t \notin running_tasks
  /\ UNCHANGED <<toolkit_vars, detector_vars>>
  /\ last_call' = [op |-> "wait", id |-> t,
                   ret |-> IF t \in completed_tasks THEN <<tasks[t]>> ELSE <<>>]
  /\ UNCHANGED <<tasks, pc, agent_tasks, agent_cancelled, running_tasks, completed_tasks,
                 sem_value, sem_waiters, cancel_req, ready>>

\* wait_for_task under asyncio.wait_for (api/ralph.py) whose timeout elapses:
\* the waiter is cancelled while awaiting the task's asyncio task, which
\* cancels that asyncio task too (CancelledError at its current await).
WaitTimeout(t) ==
  /\ t \in running_tasks
  /\ pc[t] \in {"scheduled", "queued", "woken", "iterating", "sleeping"}
  /\ UNCHANGED <<toolkit_vars, detector_vars>>
  /\ last_call' = NoCall
  /\ UNCHANGED cancel_req
  /\ CASE pc[t] = "scheduled" ->
             /\ pc' = [pc EXCEPT ![t] = "aborted"]
             /\ ready' = SelectSeq(ready, LAMBDA u : u # t)
             /\ UNCHANGED <<tasks, agent_tasks, agent_cancelled, running_tasks,
                            completed_tasks, sem_value, sem_waiters>>
       [] pc[t] = "queued" ->
             /\ pc' = [pc EXCEPT ![t] = "aborted"]
             /\ sem_waiters' = SelectSeq(sem_waiters, LAMBDA w : w # t)
             /\ UNCHANGED ready
             /\ UNCHANGED <<tasks, agent_tasks, agent_cancelled, running_tasks,
                            completed_tasks, sem_value>>
       [] pc[t] = "woken" ->
             /\ SetSem(sem_release(Sem), [pc EXCEPT ![t] = "aborted"])
             /\ UNCHANGED <<tasks, agent_tasks, agent_cancelled, running_tasks,
                            completed_tasks>>
       [] OTHER ->
             Finally(t, tasks[t], "aborted", Sem)

(* ------------------------- RalphToolkit calls ------------------------- *)
ExecuteTool(tool_name, path, text_found) ==
  /\ tool_call' = execute_tool(working_dir, tool_name, path, text_found)
  /\ UNCHANGED <<working_dir, turn, run, shell, file>>
  /\ UNCHANGED runner_vars
  /\ UNCHANGED detector_vars

ExecuteTextTool(tool_name, text) ==
  /\ tool_call' = execute_text_tool(tool_name, text)
  /\ UNCHANGED <<working_dir, turn, run, shell, file>>
  /\ UNCHANGED runner_vars
  /\ UNCHANGED detector_vars

RunCheck(check_type, command) ==
  /\ tool_call' = run_check(check_type, command)
  /\ UNCHANGED <<working_dir, turn, run, shell, file>>
  /\ UNCHANGED runner_vars
  /\ UNCHANGED detector_vars

NextToolkit ==
  \/ \E tool_name \in PathTools, path \in PathInputs, text_found \in BOOLEAN :
       ExecuteTool(tool_name, path, text_found)
  \/ \E tool_name \in ShellTools \cup {UnknownTool}, text \in CommandTexts :
       ExecuteTextTool(tool_name, text)
  \/ \E check_type \in {"test", "lint"}, command \in CommandTexts \ {<<>>} :
       RunCheck(check_type, command)

SpecToolkit == Init /\ [][NextToolkit]_vars

(* ------------------------ _call_claude, one turn ----------------------- *)
TurnTask == start(NewTask([max_iterations |-> MaxIterations,
                           completion_promise |-> DefaultPromise]))

\* _run_iteration calls _call_claude: the first request is sent
CallClaude ==
  /\ turn.pos = "idle"
  /\ turn' = [NoTurn EXCEPT !.pos = "requesting"]
  /\ UNCHANGED <<working_dir, tool_call, run, shell, file>>
  /\ UNCHANGED runner_vars
  /\ UNCHANGED detector_vars

\* messages.create returns: the blocks are processed, then the loop goes
\* round or _call_claude returns and _run_iteration completes the iteration
ClaudeAnswers(reply) ==
  /\ turn.pos = "requesting"
  /\ LET requests == turn.requests + 1
         response == StampIds(reply, requests)
         locals == process_blocks(working_dir, response.content,
                                  [turn.locals EXCEPT !.has_tool_use = FALSE,
                                                      !.assistant_content = <<>>])
     IN IF next_round(locals.has_tool_use, response.stop_reason, requests)
          THEN turn' = [turn EXCEPT !.requests = requests,
                                    !.replies = Append(@, response),
                                    !.locals = locals]
          ELSE turn' = [pos |-> "returned", requests |-> requests,
                        replies |-> Append(turn.replies, response), locals |-> locals,
                        iteration |->
                          <<run_iteration(TurnTask,
                              Input(FALSE, strip(locals.full_response), locals.tool_calls,
                                    NoFileChanges, BpNone, FALSE))>>]
  /\ UNCHANGED <<working_dir, tool_call, run, shell, file>>
  /\ UNCHANGED runner_vars
  /\ UNCHANGED detector_vars

\* messages.create raises: _run_iteration's except marks the iteration failed
ClaudeRaises ==
  /\ turn.pos = "requesting"
  /\ turn' = [turn EXCEPT !.pos = "raised", !.requests = @ + 1,
                          !.iteration =
                            <<run_iteration(TurnTask,
                                Input(TRUE, <<>>, NoToolCalls, NoFileChanges, BpNone, FALSE))>>]
  /\ UNCHANGED <<working_dir, tool_call, run, shell, file>>
  /\ UNCHANGED runner_vars
  /\ UNCHANGED detector_vars

NextTurn ==
  \/ CallClaude
  \/ \E reply \in ClaudeReplies : ClaudeAnswers(reply)
  \/ ClaudeRaises

SpecTurn == Init /\ [][NextTurn]_vars

(* ------------- the toolkit's change buffer over a run_task -------------- *)
ChangeTools == {"write_file", "edit_file", "delete_file", "read_file"}

\* f (a file of the working directory), w2 (not there yet), ../f (outside)
ChangePaths == { [absolute |-> FALSE, parts |-> <<NameF>>],
                 [absolute |-> FALSE, parts |-> <<NameW2>>],
                 [absolute |-> FALSE, parts |-> <<DotDot, NameF>>] }

\* run_task's loop enters _run_iteration, which reaches _call_claude
StartIteration ==
  /\ run.pos = "idle"
  /\ run.task.status = "running"
  /\ run' = [run EXCEPT !.pos = "turn", !.calls = 0, !.made_in = Append(@, <<>>)]
  /\ UNCHANGED <<working_dir, tool_call, turn, shell, file>>
  /\ UNCHANGED runner_vars
  /\ UNCHANGED detector_vars

\* _call_claude executes a tool_use block of the model
ToolChange(tool_name, path, text_found) ==
  /\ run.pos = "turn"
  /\ run.calls < MaxChangeCalls
  /\ LET r == resolve_path(working_dir, path)
         c == IF r.ok
                THEN tool_file_change(run.disk, tool_name, path, r.resolved, text_found)
                ELSE [changes |-> <<>>, disk |-> run.disk]
         n == Len(run.made_in)
     IN run' = [run EXCEPT !.calls = @ + 1,
                           !.file_changes = @ \o c.changes,
                           !.disk = c.disk,
                           !.made_in[n] = @ \o c.changes]
  /\ UNCHANGED <<working_dir, tool_call, turn, shell, file>>
  /\ UNCHANGED runner_vars
  /\ UNCHANGED detector_vars

\* _call_claude returns: _run_iteration takes the buffer, then runs the
\* backpressure checks (which may raise); run_task adds the iteration
TurnReturns(bp_raises) ==
  /\ run.pos = "turn"
  /\ LET got == get_file_changes(run.file_changes)
         it == run_iteration(run.task,
                 Input(FALSE, WorkingResponse, NoToolCalls, got.changes, BpNone, bp_raises))
         after == after_iteration(run.task, it, FALSE)
     IN run' = [run EXCEPT !.pos = "idle", !.task = after.task,
                           !.file_changes = got.file_changes]
  /\ UNCHANGED <<working_dir, tool_call, turn, shell, file>>
  /\ UNCHANGED runner_vars
  /\ UNCHANGED detector_vars

\* a later messages.create of the turn raises: _run_iteration's except
\* completes the iteration as failed; the toolkit is not touched
TurnRaises ==
  /\ run.pos = "turn"
  /\ LET it == run_iteration(run.task,
                 Input(TRUE, <<>>, NoToolCalls, NoFileChanges, BpNone, FALSE))
         after == after_iteration(run.task, it, FALSE)
     IN run' = [run EXCEPT !.pos = "idle", !.task = after.task]
  /\ UNCHANGED <<working_dir, tool_call, turn, shell, file>>
  /\ UNCHANGED runner_vars
  /\ UNCHANGED detector_vars

NextChanges ==
  \/ StartIteration
  \/ \E tool_name \in ChangeTools, path \in ChangePaths, text_found \in BOOLEAN :
       ToolChange(tool_name, path, text_found)
  \/ \E bp_raises \in BOOLEAN : TurnReturns(bp_raises)
  \/ TurnRaises

SpecChanges == Init /\ [][NextChanges]_vars

(* ------------------ backpressure and run_command ---------------------- *)
CheckNames == {"test", "lint", "typecheck", "build"}

\* the enable flags in every combination; overrides for none of the checks
\* or for test and build
BackpressureConfigs ==
  { [run |-> r, command |-> c] :
      r \in [CheckNames -> BOOLEAN],
      c \in { [t \in CheckNames |-> None],
              [t \in CheckNames |-> IF t \in {"test", "build"} THEN "make" ELSE None] } }

\* the signature files of an empty directory and of a Python, a
\* TypeScript, a Go and a Rust project
SignatureFiles == { {}, {"pyproject.toml"}, {"package.json", "tsconfig.json"},
                    {"go.mod"}, {"Cargo.toml"}, {"setup.py", ".flake8"} }

\* a command that cannot be spawned, quick ones that succeed or fail, and
\* two that run for 200 and 400 seconds
Processes == { Process(FALSE, 0, 0), Process(TRUE, 10, 0), Process(TRUE, 10, 1),
               Process(TRUE, 200, 0), Process(TRUE, 400, 1) }

\* _run_iteration after an LLM turn that returned: the backpressure step
RunBackpressure(config, files, processes, raises) ==
  /\ shell.op = "none"
  /\ shell' = [op |-> "backpressure", config |-> config, files |-> files,
               processes |-> processes, raises |-> raises,
               results |-> iteration_backpressure(config, files, processes, raises)]
  /\ UNCHANGED <<working_dir, tool_call, turn, run, file>>
  /\ UNCHANGED runner_vars
  /\ UNCHANGED detector_vars

\* execute_tool("run_command", {command, timeout})
RunCommand(process, seconds) ==
  /\ shell.op = "none"
  /\ shell' = [op |-> "run_command", process |-> process, timeout |-> seconds,
               result |-> tool_run_command_result(process, seconds)]
  /\ UNCHANGED <<working_dir, tool_call, turn, run, file>>
  /\ UNCHANGED runner_vars
  /\ UNCHANGED detector_vars

NextShell ==
  \/ \E config \in BackpressureConfigs, files \in SignatureFiles,
        p \in Processes, q \in Processes, test_raises \in BOOLEAN :
       RunBackpressure(config, files,
                       [t \in CheckNames |-> IF t = "test" THEN p ELSE q],
                       [t \in CheckNames |-> t = "test" /\ test_raises])
  \/ \E process \in Processes, seconds \in {60, 300, 600} : RunCommand(process, seconds)

SpecShell == Init /\ [][NextShell]_vars

(* ------------------------ edit_file on one file ----------------------- *)
Chars == {"a", "b"}
FileContents == SeqsUpTo(Chars, MaxContentLen)
Texts == SeqsUpTo(Chars, MaxTextLen)

\* the file is written (write_file, or it is there before the task starts)
WriteFile(content) ==
  /\ ~file.written
  /\ file' = [written |-> TRUE, content |-> content, edits |-> <<>>,
              contents |-> <<content>>]
  /\ UNCHANGED <<working_dir, tool_call, turn, run, shell>>
  /\ UNCHANGED runner_vars
  /\ UNCHANGED detector_vars

\* execute_tool("edit_file", {path, old_text, new_text, replace_all: true})
EditFile(old_text, new_text) ==
  /\ file.written
  /\ Len(file.edits) < MaxEdits
  /\ LET r == tool_edit_file(file.content, old_text, new_text)
     IN file' = [file EXCEPT !.content = r.content,
                             !.edits = Append(@, [old_text |-> old_text,
                                                  new_text |-> new_text,
                                                  error |-> r.error]),
                             !.contents = Append(@, r.content)]
  /\ UNCHANGED <<working_dir, tool_call, turn, run, shell>>
  /\ UNCHANGED runner_vars
  /\ UNCHANGED detector_vars

NextEdit ==
  \/ \E content \in FileContents : WriteFile(content)
  \/ \E old_text \in Texts, new_text \in Texts : EditFile(old_text, new_text)

SpecEdit == Init /\ [][NextEdit]_vars

(* ---------------------- CompletionDetector calls ---------------------- *)
\* check_completion on the first iteration of a task, as run_task calls it
CheckCompletion(config, response, tool_calls, bp) ==
  LET task0 == start(NewTask(config))
      it == run_iteration(task0, Input(FALSE, response, tool_calls, NoFileChanges, bp, FALSE))
      task == add_iteration(task0, it)
  IN /\ detection' = << [ completion_promise |-> config.completion_promise,
                          iteration |-> it,
                          result |-> check_completion(task, it) ] >>
     /\ UNCHANGED toolkit_vars
     /\ UNCHANGED runner_vars

\* answers without a promise that the progress heuristic scores
HeuristicResponses ==
  { AllDoneResponse, <<"all done", "all tests pass">>,
    AllDoneResponse \o <<ErrorText>>, AllDoneResponse \o <<HandledErrorText>>,
    AllDoneResponse \o <<"task is complete", "please review">> }

NextDetector ==
  \/ \E config \in DetectConfigs, response \in SeqsUpTo(DetectTokens, MaxResponseLen),
        bp \in {BpNone, BpFail} :
          CheckCompletion(config, response, NoToolCalls, bp)
  \/ \E config \in DetectConfigs, response \in HeuristicResponses,
        tool_calls \in {NoToolCalls, ReadCall, FailedCall}, bp \in {BpNone, BpPass, BpFail} :
          CheckCompletion(config, response, tool_calls, bp)

SpecDetector == Init /\ [][NextDetector]_vars

Next ==
  \/ \E t \in SpecTasks, c \in Configs : SubmitTask(t, c)
  \/ \E t \in SpecTasks : StartAcquire(t)
  \/ \E t \in SpecTasks : StartQueue(t)
  \/ \E t \in SpecTasks : Resume(t)
  \/ \E t \in SpecTasks, input \in IterationInputs : IterationDone(t, input, FALSE)
  \/ \E t \in SpecTasks : SleepDone(t)
  \/ \E t \in SpecTasks : GetStatus(t)
  \/ \E t \in SpecTasks : CancelTask(t)
  \/ \E t \in SpecTasks : WaitForTask(t)
  \/ \E t \in SpecTasks : WaitTimeout(t)

Spec == Init /\ [][Next]_vars

\* one task driven through run_task alone, with up to LoopMaxIterations
\* iterations
LoopTask == 1

NextLoop ==
  \/ \E c \in LoopConfigs : SubmitTask(LoopTask, c)
  \/ StartAcquire(LoopTask)
  \/ \E input \in LoopInputs, cb_raises \in BOOLEAN :
       IterationDone(LoopTask, input, cb_raises)
  \/ SleepDone(LoopTask)

SpecLoop == Init /\ [][NextLoop]_vars

\* the runner given NumQueueTasks tasks, numbered in the order they are
\* submitted, each of at most two iterations
QueueConfigs == {[max_iterations |-> 2, completion_promise |-> DefaultPromise]}

QueueInputs ==
  { Input(FALSE, WorkingResponse, ReadCall, NoFileChanges, BpNone, FALSE),
    Input(FALSE, PromiseResponse, CompleteCall, NoFileChanges, BpNone, FALSE) }

NextQueue ==
  \/ \E t \in Tasks, c \in QueueConfigs :
       /\ \A u \in 1..(t - 1) : pc[u] # "unsubmitted"
       /\ SubmitTask(t, c)
  \/ \E t \in Tasks : StartAcquire(t)
  \/ \E t \in Tasks : StartQueue(t)
  \/ \E t \in Tasks : Resume(t)
  \/ \E t \in Tasks, input \in QueueInputs : IterationDone(t, input, FALSE)
  \/ \E t \in Tasks : SleepDone(t)
  \/ \E t \in Tasks : CancelTask(t)
  \/ \E t \in Tasks : WaitTimeout(t)

SpecQueue == Init /\ [][NextQueue]_vars

\* every awaited LLM turn, backpressure run and sleep of a task inside
\* run_task returns or raises; a coroutine that can run is run
FairSpec ==
  /\ Spec
  /\ \A t \in SpecTasks :
       /\ WF_vars(StartAcquire(t))
       /\ WF_vars(StartQueue(t))
       /\ WF_vars(Resume(t))
       /\ WF_vars(\E input \in IterationInputs : IterationDone(t, input, FALSE))
       /\ WF_vars(SleepDone(t))

(* ------------------------------ claims -------------------------------- *)
Submitted(t) == pc[t] # "unsubmitted"

\* C1: a task's status only moves pending -> running -> one terminal status;
\* once terminal, no field of the task changes again, and completed_at has
\* been assigned exactly once.
C1_TaskLifecycle ==
  [][\A t \in Tasks :
       /\ \/ tasks'[t].hist = <<>> /\ tasks'[t].status = "pending"
          \/ tasks'[t].hist = <<"running">> /\ tasks'[t].status = "running"
          \/ /\ Len(tasks'[t].hist) = 2
             /\ tasks'[t].hist[1] = "running"
             /\ IsTerminal(tasks'[t].hist[2])
             /\ tasks'[t].status = tasks'[t].hist[2]
       /\ tasks'[t].completed_at = IF IsTerminal(tasks'[t].status) THEN 1 ELSE 0
       /\ IsTerminal(tasks[t].status) => tasks'[t] = tasks[t]
    ]_vars

C1_Witness ==
  \E t \in Tasks :
    /\ tasks[t].hist = <<"running", "cancelled">>
    /\ tasks[t].completed_at = 1
    /\ Len(tasks[t].iterations) >= 1
    /\ last_call.op = "cancel" /\ last_call.id = t

\* C2: an iteration recorded with completion_promise_found is the task's last
\* one, and the task is completed on it with is_complete and confidence 1.0,
\* whatever the backpressure results, the iteration's error or a pending
\* cancellation request.
C2_PromiseCompletes ==
  \A t \in Tasks : \A i \in 1..Len(tasks[t].iterations) :
    tasks[t].iterations[i].completion_promise_found =>
      /\ tasks[t].status = "completed"
      /\ i = Len(tasks[t].iterations)
      /\ tasks[t].current_iteration = tasks[t].iterations[i].iteration_number
      /\ tasks[t].completion_result # <<>>
      /\ tasks[t].completion_result[1].is_complete
      /\ tasks[t].completion_result[1].confidence = 100

C2_Witness ==
  \E t \in Tasks :
    /\ tasks[t].iterations # <<>>
    /\ Last(tasks[t].iterations).completion_promise_found
    /\ Last(tasks[t].iterations).error # None
    /\ cancel_req[t].accepted
    /\ tasks[t].status = "completed"

\* C3: a task that ended with max_iterations iterations recorded and no
\* completion has status timeout and an error mentioning "timed out".
C3_MaxIterationsTimeout ==
  \A t \in Tasks :
    ( /\ IsTerminal(tasks[t].status)
      /\ Len(tasks[t].iterations) = tasks[t].config.max_iterations
      /\ tasks[t].completion_result = <<>> )
    => /\ tasks[t].status = "timeout"
       /\ tasks[t].error # <<>>
       /\ tasks[t].error[1] = "Task timed out after"

\* C4: a tool call whose path canonicalizes outside working_directory returns
\* an error and reads or writes nothing on disk.
C4_PathConfinement ==
  ( /\ tool_call.tool_name # None
    /\ ~IsInside(Resolve(JoinPath(working_dir, tool_call.path)), working_dir) )
  => /\ tool_call.error # None \/ tool_call.result_error # None
     /\ tool_call.fs_ops = {}

\* C5: at most max_concurrent_tasks tasks are executing run_task at any time.
C5_BoundedConcurrency ==
  Cardinality({t \in Tasks : InRunTask(t) \/ t \in agent_tasks}) <= MaxConcurrent

C5_Witness ==
  /\ Cardinality({t \in Tasks : InRunTask(t)}) = MaxConcurrent
  /\ \E t \in Tasks : pc[t] = "queued"

\* C6 (as stated): once cancel(id) has returned true, the task ends with
\* status cancelled and completed_at set, whatever the iteration in flight did.
C6_CancelAlwaysCancels ==
  \A t \in Tasks :
    (cancel_req[t].accepted /\ pc[t] = "done")
      => tasks[t].status = "cancelled" /\ tasks[t].completed_at = 1

\* C6 (amended): once cancel(id) has returned true, a terminal status the task
\* reaches is cancelled with completed_at set, unless the iteration that was in
\* flight at the request stopped the loop itself: then the task is completed
\* or failed on that very iteration.
C6_CancelUnlessStopped ==
  \A t \in Tasks :
    (cancel_req[t].accepted /\ IsTerminal(tasks[t].status))
      => \/ tasks[t].status = "cancelled" /\ tasks[t].completed_at = 1
         \/ /\ cancel_req[t].inflight
            /\ tasks[t].status \in {"completed", "failed"}
            /\ tasks[t].current_iteration = cancel_req[t].at + 1

C6_Witness ==
  \E t \in Tasks :
    /\ cancel_req[t].accepted
    /\ cancel_req[t].inflight
    /\ tasks[t].status = "cancelled"
    /\ tasks[t].current_iteration = cancel_req[t].at + 1

\* C7: after cancel(id) returned true no new iteration of the task starts: at
\* most the iteration in flight at the request is still appended.
C7_NoIterationAfterCancel ==
  \A t \in Tasks :
    cancel_req[t].accepted =>
      /\ Len(tasks[t].iterations) <=
           cancel_req[t].at + (IF cancel_req[t].inflight THEN 1 ELSE 0)
      /\ pc[t] = "iterating" => Len(tasks[t].iterations) = cancel_req[t].at

C7_Witness ==
  \E t \in Tasks :
    /\ cancel_req[t].accepted
    /\ ~cancel_req[t].inflight
    /\ cancel_req[t].at >= 1
    /\ pc[t] = "done"
    /\ Len(tasks[t].iterations) = cancel_req[t].at

\* C8: cancel(id) on a task in a terminal state returns false, changes no
\* task and leaves no cancellation entry for the id.
C8_CancelTerminal ==
  [][ ( /\ last_call'.op = "cancel"
        /\ IsTerminal(tasks[last_call'.id].status) )
      => /\ last_call'.ret = <<[returned |-> FALSE]>>
         /\ tasks' = tasks
         /\ last_call'.id \notin agent_cancelled'
    ]_vars

C8_Witness ==
  /\ last_call.op = "cancel"
  /\ last_call.ret = <<[returned |-> FALSE]>>
  /\ IsTerminal(tasks[last_call.id].status)
  /\ cancel_req[last_call.id].accepted

\* C9: status(id) is a summary, never nil, for every id that was submitted.
C9_StatusOfSubmitted ==
  \A t \in Tasks : Submitted(t) => get_status(t) # <<>>

\* C10: cancel returns false only for an id that was never submitted or whose
\* task is terminal.
C10_CancelNotFound ==
  (last_call.op = "cancel" /\ last_call.ret = <<[returned |-> FALSE]>>)
    => \/ ~Submitted(last_call.id)
       \/ IsTerminal(tasks[last_call.id].status)

\* C11: wait(id) on a submitted task returns a task whose status is terminal
\* (it returns only once the task has reached a terminal state).
C11_WaitReturnsTerminal ==
  (last_call.op = "wait" /\ Submitted(last_call.id))
    => /\ last_call.ret # <<>>
       /\ IsTerminal(last_call.ret[1].status)

\* C12: each submitted task id is in exactly one of the running map and the
\* completed registry, and every task in the completed registry has a
\* terminal status.
C12_RegistryPartition ==
  \A t \in Tasks :
    /\ Submitted(t) => ((t \in running_tasks) # (t \in completed_tasks))
    /\ t \in completed_tasks => IsTerminal(tasks[t].status)

\* the sum over the iterations of the number of tool calls / file changes
RECURSIVE SumToolCalls(_)
SumToolCalls(its) ==
  IF its = <<>> THEN 0 ELSE Len(Head(its).tool_calls) + SumToolCalls(Tail(its))

RECURSIVE SumFileChanges(_)
SumFileChanges(its) ==
  IF its = <<>> THEN 0 ELSE Len(Head(its).file_changes) + SumFileChanges(Tail(its))

\* C13: total_tool_calls is the sum over the task's iterations of the number
\* of tool calls in the iteration, total_file_changes the sum of the number
\* of file changes.
C13_TotalsAreSums ==
  \A t \in Tasks :
    /\ tasks[t].total_tool_calls = SumToolCalls(tasks[t].iterations)
    /\ tasks[t].total_file_changes = SumFileChanges(tasks[t].iterations)

C13_Witness ==
  \E t \in Tasks :
    /\ Len(tasks[t].iterations) = 2
    /\ tasks[t].total_tool_calls = 3
    /\ tasks[t].total_file_changes = 2
    /\ Len(tasks[t].iterations[1].tool_calls) # Len(tasks[t].iterations[2].tool_calls)

\* C14: iterations are only ever appended, the iteration at position k has
\* iteration_number k, and current_iteration is the length of the list.
C14_IterationsAppendOnly ==
  [][\A t \in Tasks :
       /\ Len(tasks[t].iterations) <= Len(tasks'[t].iterations)
       /\ SubSeq(tasks'[t].iterations, 1, Len(tasks[t].iterations)) = tasks[t].iterations
       /\ \A k \in 1..Len(tasks'[t].iterations) :
            tasks'[t].iterations[k].iteration_number = k
       /\ tasks'[t].current_iteration = Len(tasks'[t].iterations)
    ]_vars

C14_Witness ==
  \E t \in Tasks :
    /\ Len(tasks[t].iterations) = 2
    /\ tasks[t].iterations[2].iteration_number = 2
    /\ tasks[t].current_iteration = 2

\* C15: for a task with max_iterations >= 1 the number of iterations recorded
\* never exceeds max_iterations, and iterations_remaining, computed for the
\* context while an iteration runs, is never negative.
C15_IterationsBounded ==
  \A t \in Tasks :
    tasks[t].config.max_iterations >= 1 =>
      /\ Len(tasks[t].iterations) <= tasks[t].config.max_iterations
      /\ pc[t] = "iterating" =>
           tasks[t].config.max_iterations - tasks[t].current_iteration >= 0

C15_Witness ==
  \E t \in Tasks :
    /\ tasks[t].config.max_iterations = 1
    /\ Len(tasks[t].iterations) = 1
    /\ pc[t] = "done"
    /\ tasks[t].completion_result = <<>>

\* C16: every task started by run_task (status running) eventually reaches a
\* terminal status, provided every awaited call returns or raises.
C16_EventuallyTerminal ==
  \A t \in Tasks : (tasks[t].status = "running") ~> IsTerminal(tasks[t].status)

\* an iteration one of whose backpressure results has passed = false
HasFailedCheck(it) ==
  \E i \in 1..Len(it.backpressure_results) : ~it.backpressure_results[i].passed

\* C17 (as stated): no task is completed on an iteration one of whose
\* backpressure results has passed = false.
C17_FailedCheckBlocksCompletion ==
  \A t \in Tasks :
    (tasks[t].status = "completed" /\ tasks[t].iterations # <<>>)
      => ~HasFailedCheck(Last(tasks[t].iterations))

\* C17 (amended): a task is completed on an iteration with a failed
\* backpressure result only when that iteration's response carries the
\* completion promise; without the promise a failed check blocks completion,
\* whatever completion phrases the response contains.
C17_FailedCheckBlocksUnlessPromise ==
  \A t \in Tasks :
    (tasks[t].status = "completed" /\ tasks[t].iterations # <<>>
       /\ HasFailedCheck(Last(tasks[t].iterations)))
      => /\ Last(tasks[t].iterations).completion_promise_found
         /\ tasks[t].completion_result[1].promise_detected

C17_Witness ==
  \E t \in Tasks :
    /\ tasks[t].iterations # <<>>
    /\ HasFailedCheck(Last(tasks[t].iterations))
    /\ Last(tasks[t].iterations).agent_response = AllDoneResponse
    /\ Last(tasks[t].iterations).error = None
    /\ tasks[t].status = "running"
    /\ pc[t] = "sleeping"

\* the last three recorded iterations have identical response prefixes, the
\* task is not complete and current_iteration < max_iterations
StuckCase(task) ==
  /\ Len(task.iterations) >= 3
  /\ Cardinality(RecentResponses(task.iterations)) = 1
  /\ task.status # "completed"
  /\ task.current_iteration < task.config.max_iterations

\* a full window of five iterations of which at least four have an error
ErrorWindow(task) == Len(task.iterations) >= 5 /\ RecentErrors(task.iterations) >= 4

StuckReason == <<"Agent appears stuck (identical responses)">>

ErrorsReason == <<"Too many consecutive errors">>

\* C18 (as stated): when the last three recorded iterations have identical
\* response prefixes, the task is not complete and current_iteration <
\* max_iterations, the loop has stopped and the task is failed with a reason
\* containing "stuck".
C18_StuckStopsWithStuckReason ==
  StuckCase(tasks[LoopTask]) =>
    /\ pc[LoopTask] = "done"
    /\ tasks[LoopTask].status = "failed"
    /\ tasks[LoopTask].error = StuckReason

\* C18 (amended): in that case the loop stops right after the third of the
\* iterations and the task is failed; the reason is the stuck one unless at
\* least 4 of the last 5 iterations have an error, which is checked first
\* and gives the reason "Too many consecutive errors".  A model that always
\* returns the same non-completing text is stopped after exactly 3 iterations.
C18_StuckStops ==
  LET task == tasks[LoopTask]
  IN /\ StuckCase(task) =>
          /\ pc[LoopTask] = "done"
          /\ task.status = "failed"
          /\ task.error = IF ErrorWindow(task) THEN ErrorsReason ELSE StuckReason
     /\ ( /\ task.config.max_iterations > 3
          /\ task.status # "completed"
          /\ \A i \in 1..Len(task.iterations) :
               task.iterations[i].agent_response = task.iterations[1].agent_response )
        => /\ Len(task.iterations) <= 3
           /\ Len(task.iterations) = 3 => task.error = StuckReason

C18_Witness ==
  LET task == tasks[LoopTask]
  IN /\ task.config.max_iterations > 3
     /\ Len(task.iterations) = 3
     /\ task.iterations[1].agent_response = LongResponseA
     /\ task.iterations[2].agent_response = LongResponseB
     /\ task.iterations[3].agent_response = LongResponseA
     /\ task.status = "failed"
     /\ task.error = StuckReason
     /\ pc[LoopTask] = "done"

\* C19 (as stated): when at least 4 of the task's last 5 iterations have a
\* non-null error, the task is not complete and current_iteration <
\* max_iterations, the loop has stopped and the task is failed with the
\* reason "Too many consecutive errors".
C19_FourErrorsStop ==
  LET task == tasks[LoopTask]
  IN ( /\ RecentErrors(task.iterations) >= 4
       /\ task.status # "completed"
       /\ task.current_iteration < task.config.max_iterations )
     => /\ pc[LoopTask] = "done"
        /\ task.status = "failed"
        /\ task.error = ErrorsReason

\* C19 (amended): the same for a task that has at least 5 recorded
\* iterations; with fewer iterations the error window does not stop the loop.
C19_ErrorWindowStops ==
  LET task == tasks[LoopTask]
  IN ( /\ ErrorWindow(task)
       /\ task.status # "completed"
       /\ task.current_iteration < task.config.max_iterations )
     => /\ pc[LoopTask] = "done"
        /\ task.status = "failed"
        /\ task.error = ErrorsReason
        /\ should_stop(task, [is_complete |-> FALSE, reason |-> <<>>]) =
             [stop |-> TRUE, reason |-> ErrorsReason]

C19_Witness ==
  LET task == tasks[LoopTask]
  IN /\ Len(task.iterations) = 5
     /\ task.current_iteration < task.config.max_iterations
     /\ RecentErrors(task.iterations) = 4
     /\ Cardinality(RecentResponses(task.iterations)) = 1
     /\ task.status = "failed"
     /\ task.error = ErrorsReason

\* the response contains the configured completion_promise literal, or the
\* default literal, or text that one of the alternate patterns matches when
\* case is ignored
HasPromise(response, completion_promise) ==
  \/ \E i \in 1..Len(response) : response[i] = completion_promise
  \/ \E i \in 1..Len(response) : response[i] = DefaultPromise
  \/ \E i \in 1..Len(response) :
       \E k \in 1..Len(CompletionPatterns) : Lower(response[i]) \in CompletionPatterns[k]

\* C20: check_completion reports promise_detected (with is_complete and
\* confidence 1.0) if and only if the response contains the configured
\* promise literal, the default literal, or matches an alternate pattern
\* case-insensitively; otherwise promise_detected is false.
C20_PromiseDetectedIff ==
  detection # <<>> =>
    LET d == detection[1]
        has == HasPromise(d.iteration.agent_response, d.completion_promise)
    IN /\ d.result.promise_detected = has
       /\ has => d.result.is_complete /\ d.result.confidence = 100
       /\ d.iteration.completion_promise_found = has

C20_Witness ==
  /\ detection # <<>>
  /\ detection[1].completion_promise = CustomPromise
  /\ detection[1].iteration.agent_response = <<"ship it", "<PROMISE>complete</PROMISE>">>
  /\ detection[1].iteration.backpressure_results = BpFail
  /\ detection[1].result.promise_detected
  /\ detection[1].result.confidence = 100

\* C21: for every tool invocation that fails, whether the tool gave up with
\* an error result (file not found, text not found, blocked command) or
\* execute_tool caught the failure itself (path outside the working
\* directory, unknown tool, exception), the ToolCall returned carries the
\* error string in its error field.
C21_FailureInErrorField ==
  (tool_call.tool_name # None /\ tool_call.result_error # None)
    => tool_call.error = tool_call.result_error

\* C21 (amended): execute_tool always returns a ToolCall, and a failing
\* invocation carries its error string in exactly one place: in the error
\* field when there is no such tool or the tool raised (path outside the
\* working directory), in the "error" key of the result when the tool itself
\* gave up (file not found, text not found, blocked command).
C21_FailureReported ==
  LET tc == tool_call
      r == resolve_path(working_dir, tc.path)
      InField(e) == tc.error = e /\ tc.result_error = None
      InResult(e) == tc.error = None /\ tc.result_error = e
  IN tc.tool_name # None =>
       /\ tc.error = None \/ tc.result_error = None
       /\ tc.tool_name = UnknownTool => InField("Unknown tool")
       /\ (tc.tool_name \in PathTools /\ tc.text = <<>> /\ ~r.ok)
            => InField("Path is outside working directory")
       /\ (tc.tool_name \in {"read_file", "edit_file"} /\ r.ok /\ ~Exists(r.resolved))
            => InResult("File not found")
       /\ (tc.tool_name = "edit_file" /\ r.ok /\ r.resolved \in FilesOnDisk
              /\ ~tc.text_found)
            => InResult("Text not found in file")
       /\ (tc.tool_name = "run_command" /\ \E d \in Denylist : Contains(tc.text, d))
            => InResult("Dangerous command blocked")

C21_Witness ==
  /\ tool_call.tool_name = "edit_file"
  /\ tool_call.result_error = "Text not found in file"
  /\ tool_call.error = None

\* C22: no subprocess is spawned with a command string that contains a
\* denylisted substring, whichever way the command arrives.
C22_DenylistNeverSpawned ==
  \A command \in tool_call.spawned : \A d \in Denylist : ~Contains(command, d)

\* C25: a wait that gives up on its timeout has no effect on the task: the
\* task's coroutine stays where it was (running or queueing) and the task
\* record is untouched.
C25_WaitTimeoutHarmless ==
  [][\A t \in Tasks : WaitTimeout(t) => (pc'[t] = pc[t] /\ tasks'[t] = tasks[t])]_vars

C24_FifoAdmission ==
  \A a, b \in Tasks :
    a < b =>
      /\ pc[b] \in {"woken", "iterating", "sleeping", "done"}
           => pc[a] \notin {"scheduled", "queued"}
      /\ pc[b] \in {"iterating", "sleeping", "done"} => pc[a] # "woken"

\* tasks 2 and 3 both queued behind task 1; task 2 was woken first and runs,
\* task 3 is still in the queue
C24_Witness ==
  /\ pc[1] = "done"
  /\ pc[2] = "iterating"
  /\ pc[3] = "queued"
  /\ sem_waiters = <<3>>
  /\ Len(tasks[1].iterations) = 2

\* C26: the slot is released on every way a task can end, so that, the
\* running tasks terminating, every submitted task eventually starts running
\* and eventually appears in the completed registry.
C26_EverySubmittedTaskCompletes ==
  \A t \in Tasks : Submitted(t) ~> (t \in completed_tasks)

\* C27: when check_completion finds no promise, is_complete is true only if
\* every backpressure result passed, no tool call has an error, no error
\* pattern matches the response (skipped matches apart), and the heuristic
\* score is at least 0.5; the confidence is that score, at most 0.7.
C27_HeuristicCompletion ==
  \A i \in 1..Len(detection) :
    LET d == detection[i]
    IN (~d.result.promise_detected /\ d.result.is_complete)
         => /\ ~HasFailedCheck(d.iteration)
            /\ \A k \in 1..Len(d.iteration.tool_calls) :
                  d.iteration.tool_calls[k].error = None
            /\ ResponseErrors(d.iteration.agent_response) = <<>>
            /\ d.result.confidence >= 50
            /\ d.result.confidence <= 70

\* a stop condition of should_stop other than completion holds for the task
OtherStopCondition(task) ==
  \/ task.current_iteration >= task.config.max_iterations
  \/ ErrorWindow(task)
  \/ Len(task.iterations) >= 3 /\ Cardinality(RecentResponses(task.iterations)) = 1

\* C28: an iteration without a promise and with a backpressure result that
\* did not pass never completes the task, whatever completion phrases its
\* response has, and unless another stop condition holds the loop goes on to
\* the next iteration.
C28_FailedCheckKeepsLooping ==
  [][\A t \in Tasks :
       LET new == tasks'[t]
       IN ( /\ pc[t] = "iterating"
            /\ Len(new.iterations) = Len(tasks[t].iterations) + 1
            /\ HasFailedCheck(Last(new.iterations))
            /\ ~HasPromise(Last(new.iterations).agent_response,
                           new.config.completion_promise) )
          => /\ new.status # "completed"
             /\ new.completion_result = <<>>
             /\ ~OtherStopCondition(new)
                  => (new.status = "running" /\ pc'[t] = "sleeping")]_vars

\* the iteration after one with completion phrases and a failed check is
\* under way
C28_Witness ==
  \E t \in Tasks :
    /\ pc[t] = "iterating"
    /\ Len(tasks[t].iterations) = 1
    /\ HasFailedCheck(tasks[t].iterations[1])
    /\ tasks[t].iterations[1].agent_response = AllDoneResponse
    /\ tasks[t].current_iteration = 1
    /\ tasks[t].status = "running"

\* C29: a task with max_iterations >= 5 whose LLM call fails in every
\* iteration is not stopped before four errored iterations, and is then
\* failed with the reason "Too many consecutive errors".
C29_LlmFailuresStopAtFour ==
  LET task == tasks[LoopTask]
  IN ( /\ task.config.max_iterations >= 5
       /\ task.iterations # <<>>
       /\ \A i \in 1..Len(task.iterations) : task.iterations[i].error = "llm error"
       /\ pc[LoopTask] = "done" )
     => /\ Len(task.iterations) >= 4
        /\ task.status = "failed"
        /\ task.error = ErrorsReason

HasToolUse(reply) == \E i \in 1..Len(reply.content) : reply.content[i].type = "tool_use"

\* the texts and the names of the tools used in a sequence of replies, in order
RECURSIVE TextsOf(_)
TextsOf(blocks) ==
  IF blocks = <<>> THEN <<>>
  ELSE (IF Head(blocks).type = "text" THEN <<Head(blocks).text>> ELSE <<>>)
         \o TextsOf(Tail(blocks))

RECURSIVE ToolNamesOf(_)
ToolNamesOf(blocks) ==
  IF blocks = <<>> THEN <<>>
  ELSE (IF Head(blocks).type = "tool_use" THEN <<Head(blocks).name>> ELSE <<>>)
         \o ToolNamesOf(Tail(blocks))

RECURSIVE AllBlocks(_)
AllBlocks(replies) ==
  IF replies = <<>> THEN <<>> ELSE Head(replies).content \o AllBlocks(Tail(replies))

\* C30: within one iteration at most max_tool_rounds = 10 requests are made;
\* the loop is left as soon as a reply has no tool_use block or has the stop
\* reason end_turn, and not before (unless a request raises); and when the
\* tenth reply still has a
\* tool_use block the iteration is recorded as completed with all the text
\* and all the tool calls of the ten replies.
C30_ToolRoundsBounded ==
  LET n == Len(turn.replies)
      blocks == AllBlocks(turn.replies)
  IN /\ turn.requests <= max_tool_rounds
     /\ \A k \in 1..n :
          LET goes_on == /\ HasToolUse(turn.replies[k])
                         /\ turn.replies[k].stop_reason # "end_turn"
          IN /\ (k < n \/ turn.pos \in {"requesting", "raised"}) => goes_on
             /\ (k = n /\ turn.pos = "returned" /\ n < max_tool_rounds) => ~goes_on
     /\ turn.pos = "requesting" => turn.requests = n
     /\ (turn.pos = "returned" /\ n = max_tool_rounds /\ HasToolUse(turn.replies[n]))
          => LET it == turn.iteration[1]
             IN /\ it.status = "completed"
                /\ it.error = None
                /\ [i \in 1..Len(it.tool_calls) |-> it.tool_calls[i].tool_name]
                     = ToolNamesOf(blocks)
                /\ SelectSeq(it.agent_response,
                             LAMBDA x : x \notin {"\n", DefaultPromise, "Summary: finished"})
                     = TextsOf(blocks)

C30_Witness ==
  /\ turn.pos = "returned"
  /\ turn.requests = max_tool_rounds
  /\ HasToolUse(turn.replies[max_tool_rounds])
  /\ turn.replies[max_tool_rounds].stop_reason = "tool_use"
  /\ turn.iteration[1].status = "completed"
  /\ Len(turn.iteration[1].tool_calls) >= max_tool_rounds

\* the tool_use blocks of the replies received in the turn, in emission order
ToolUses(replies) == SelectSeq(AllBlocks(replies), LAMBDA b : b.type = "tool_use")

\* C31: every tool_use block emitted in the turn is executed exactly once and
\* in emission order; when the next request is sent (and when the turn ends)
\* the message history holds, for each block in order, the assistant message
\* carrying it directly followed by a user message with the tool_result for
\* its tool_use_id; user and assistant messages alternate; the iteration's
\* tool_calls are in emission order.
C31_ToolResultsInOrder ==
  LET msgs == turn.locals.messages
      uses == ToolUses(turn.replies)
      names == [j \in 1..Len(uses) |-> uses[j].name]
  IN /\ Len(msgs) = 1 + 2 * Len(uses)
     /\ \A m \in 1..Len(msgs) :
          msgs[m].role = IF m % 2 = 1 THEN "user" ELSE "assistant"
     /\ \A j \in 1..Len(uses) :
          /\ Last(msgs[2 * j].content) = uses[j]
          /\ \A i \in 1..(Len(msgs[2 * j].content) - 1) :
               msgs[2 * j].content[i].type = "text"
          /\ Len(msgs[2 * j + 1].content) = 1
          /\ msgs[2 * j + 1].content[1].type = "tool_result"
          /\ msgs[2 * j + 1].content[1].tool_use_id = uses[j].id
     /\ \A j, k \in 1..Len(uses) : uses[j].id = uses[k].id => j = k
     /\ [j \in 1..Len(turn.locals.tool_calls) |-> turn.locals.tool_calls[j].tool_name]
          = names
     /\ turn.pos = "returned"
          => [j \in 1..Len(turn.iteration[1].tool_calls) |->
                turn.iteration[1].tool_calls[j].tool_name] = names

\* a reply with two tool uses, then one with text and a tool use, were
\* answered and the next request is out
C31_Witness ==
  /\ turn.pos = "requesting"
  /\ turn.requests = 2
  /\ Len(turn.replies[1].content) = 2
  /\ turn.replies[1].content[2].type = "tool_use"
  /\ turn.replies[1].content[1].type = "tool_use"
  /\ turn.replies[2].content[1].type = "text"
  /\ Len(turn.locals.messages) = 7

\* what run_task makes of the turn for a task configured with
\* completion_promise: the iteration of _run_iteration and the task after it
TurnOutcome(completion_promise) ==
  LET task == start(NewTask([max_iterations |-> MaxIterations,
                             completion_promise |-> completion_promise]))
      it == run_iteration(task,
              Input(turn.pos = "raised", strip(turn.locals.full_response),
                    turn.locals.tool_calls, NoFileChanges, BpNone, FALSE))
  IN [iteration |-> it, task |-> after_iteration(task, it, FALSE).task]

\* C32: when a complete_task tool call was emitted during the iteration, the
\* iteration's agent_response contains the literal <promise>COMPLETE</promise>
\* and the task ends completed on that iteration, whatever completion_promise
\* is configured and whatever happens in the later rounds of the iteration.
C32_CompleteTaskCompletes ==
  ( /\ turn.pos \in {"returned", "raised"}
    /\ \E j \in 1..Len(ToolUses(turn.replies)) :
         ToolUses(turn.replies)[j].name = "complete_task" )
  => \A p \in {DefaultPromise, CustomPromise} :
       /\ Contains(TurnOutcome(p).iteration.agent_response, DefaultPromise)
       /\ TurnOutcome(p).task.status = "completed"
       /\ Len(TurnOutcome(p).task.iterations) = 1

\* the error a tool call produced: in its error field or in its result
ToolError(call) ==
  IF call.error # None THEN call.error ELSE call.result_error

\* the number of tool_use blocks in the first k replies
UsesUpTo(k) == Len(ToolUses(SubSeq(turn.replies, 1, k)))

\* C33: a tool call that produces an error is never fatal: the error goes
\* back to the model as the tool_result of that call, the inner loop goes on
\* as after any tool use, the iteration is recorded completed with no
\* iteration error, and the task is not ended by it.
C33_ToolErrorNotFatal ==
  LET calls == turn.locals.tool_calls
      n == Len(turn.replies)
  IN \A j \in 1..Len(calls) :
       ToolError(calls[j]) # None =>
         /\ turn.locals.messages[2 * j + 1].content[1].content.error = ToolError(calls[j])
         /\ \A k \in 1..n :
              ( /\ UsesUpTo(k - 1) < j /\ j <= UsesUpTo(k)
                /\ turn.replies[k].stop_reason # "end_turn"
                /\ k < max_tool_rounds )
              => (k < n \/ turn.pos \in {"requesting", "raised"})
         /\ turn.pos = "returned" =>
              /\ turn.iteration[1].status = "completed"
              /\ turn.iteration[1].error = None
              /\ turn.iteration[1].tool_calls = calls
              /\ TurnOutcome(DefaultPromise).task.status \in {"running", "completed"}
              /\ TurnOutcome(DefaultPromise).task.status = "completed"
                   => Contains(turn.iteration[1].agent_response, DefaultPromise)

\* a tool call with an error in its field, one with an error in its result,
\* then a reply without tool use: the iteration is completed, the task runs on
C33_Witness ==
  /\ turn.pos = "returned"
  /\ turn.requests = 2
  /\ Len(turn.locals.tool_calls) = 2
  /\ turn.locals.tool_calls[1].result_error = "Text not found in file"
  /\ turn.locals.tool_calls[2].error = "Path is outside working directory"
  /\ turn.iteration[1].status = "completed"
  /\ TurnOutcome(DefaultPromise).task.status = "running"

\* C34: every file change made by write_file, edit_file or delete_file
\* during iteration N is in iteration N's file_changes and in no other
\* iteration's, and the toolkit's buffer is empty whenever an iteration
\* starts, also after an iteration that ended with an exception.
C34_ChangesInTheirIteration ==
  /\ \A n \in 1..Len(run.task.iterations) :
       run.task.iterations[n].file_changes = run.made_in[n]
  /\ run.pos = "idle" => run.file_changes = <<>>

\* the checks that are enabled and for which a command resolves, in the
\* order test, lint, typecheck, build
RECURSIVE ExpectedChecks(_, _, _)
ExpectedChecks(config, files, types) ==
  IF types = <<>> THEN <<>>
  ELSE (IF config.run[Head(types)] /\ resolve_command(config, Head(types), files) # None
          THEN <<Head(types)>> ELSE <<>>) \o ExpectedChecks(config, files, Tail(types))

\* C35: after an LLM turn that returned, for every combination of the four
\* enable flags, the iteration holds exactly one backpressure result for
\* each check that is enabled and has a command (the override, else the
\* detected one) and none for the others, in the order test, lint,
\* typecheck, build.
C35_OneResultPerEnabledCheck ==
  shell.op = "backpressure" =>
    [i \in 1..Len(shell.results) |-> shell.results[i].check_type]
      = ExpectedChecks(shell.config, shell.files, CheckTypes)

\* the command of a check ran to completion
RanToCompletion(check_type) ==
  /\ ~shell.raises[check_type]
  /\ shell.processes[check_type].spawns
  /\ shell.processes[check_type].duration <= CheckTimeout

\* C36: a backpressure result has passed = TRUE exactly when its command
\* ran to completion with exit code 0; a command that times out, cannot be
\* spawned or raises gives a result with passed = FALSE, and the
\* backpressure step still returns a result for every check it ran.
C36_PassedIffExitZero ==
  shell.op = "backpressure" =>
    /\ \A i \in 1..Len(shell.results) :
         LET check_type == shell.results[i].check_type
         IN shell.results[i].passed
              <=> (RanToCompletion(check_type)
                     /\ shell.processes[check_type].exit_code = 0)
    /\ (shell.config.run["test"] \/ shell.config.run["lint"] \/ shell.config.run["typecheck"])
         => Len(shell.results)
              = Len(ExpectedChecks(shell.config, shell.files, CheckTypes))

\* a test command that timed out and a lint command that exited with 0
C36_Witness ==
  /\ shell.op = "backpressure"
  /\ Len(shell.results) = 2
  /\ shell.results[1].check_type = "test"
  /\ shell.processes["test"].duration > CheckTimeout
  /\ ~shell.results[1].passed
  /\ shell.results[2].check_type = "lint"
  /\ shell.results[2].passed

\* C39: when a command run through run_command exceeds its timeout (at
\* most 300 seconds), the child is killed and the tool result carries
\* exit_code -1, an error text and the stdout captured up to that point.
C39_TimeoutKeepsStdout ==
  ( /\ shell.op = "run_command"
    /\ shell.process.spawns
    /\ shell.process.duration > shell.timeout \/ shell.process.duration > MaxCommandTimeout )
  => /\ shell.result.killed
     /\ shell.result.exit_code = <<-1>>
     /\ shell.result.error # None
     /\ shell.result.stdout = <<shell.process.stdout>>

\* C37: every iteration appended to a task has status completed or failed,
\* never running, with completed_at set, and it is failed exactly when its
\* error field is not None.
C37_AppendedIterationsAreFinished ==
  \A t \in Tasks : \A i \in 1..Len(tasks[t].iterations) :
    LET it == tasks[t].iterations[i]
    IN /\ it.status \in {"completed", "failed"}
       /\ it.completed_at # 0
       /\ it.status = "failed" <=> it.error # None

\* a task with a failed iteration (an error) and a completed one (no error)
C37_Witness ==
  \E t \in Tasks :
    /\ Len(tasks[t].iterations) = 2
    /\ tasks[t].iterations[1].status = "failed"
    /\ tasks[t].iterations[1].error # None
    /\ tasks[t].iterations[2].status = "completed"
    /\ tasks[t].iterations[2].error = None

\* C38: for every file content and all texts X, Y with X occurring in the
\* file, edit_file(p, X, Y, replace_all) followed by
\* edit_file(p, Y, X, replace_all) leaves the file equal to the original if
\* and only if Y does not occur in the original content and X does not
\* occur in the edited content.
C38_EditRoundTrip ==
  ( /\ Len(file.edits) = 2
    /\ file.edits[2].old_text = file.edits[1].new_text
    /\ file.edits[2].new_text = file.edits[1].old_text
    /\ Occurs(file.edits[1].old_text, file.contents[1]) )
  => ( file.contents[3] = file.contents[1]
         <=> ( /\ ~Occurs(file.edits[1].new_text, file.contents[1])
               /\ ~Occurs(file.edits[1].old_text, file.contents[2]) ) )

====
